---- MODULE Spec2Model ----
(***************************************************************************)
(* Index tuning subsystem of the column store: the budgeted swap-and-      *)
(* replace index selector (IndexSelector::select_indices) and the tuning   *)
(* pass that applies its operations and runs it again (Spec, RerunSpec);   *)
(* the plan walkers and the aggregation of their access records            *)
(* (WalkSpec); the evaluator pass from the plan cache to the selector      *)
(* (PassSpec).                                                             *)
(*                                                                         *)
(* Floats (desirability, memory cost, budget) are modelled as small        *)
(* integers; float rounding is outside the model.                          *)
(***************************************************************************)
EXTENDS Integers, Sequences, FiniteSets, TLC

(* ------------------------------ bounds --------------------------------- *)

\* largest number of choices handed to the selector
MaxChoices == 3

\* desirability (saved work) of a choice ranges over -MaxLoss .. MaxGain
MaxLoss == 1

MaxGain == 2

\* memory cost of one index ranges over 0 .. MaxCost
MaxCost == 2

\* memory budget ranges over 0 .. MaxBudget
MaxBudget == 3

\* number of tuning passes (calls of select_indices) in one behaviour
MaxPasses == 2

\* largest number of nodes of a query plan drawn from the full plan family
MaxNodes == 3

\* access frequency of a cached query ranges over 1 .. MaxFrequency
MaxFrequency == 2

\* the work list of _inspect_operator is followed up to this length (it grows
\* without bound on some plans)
MaxQueue == 4

\* the record buffer is followed up to this length while _inspect_operator
\* runs (it grows without bound on some plans)
MaxRecords == 4

\* largest number of entries of the plan cache
MaxEntries == 2

\* number of rows of every table of the catalog
TableRows == 4

\* largest number of chunks of a table
MaxChunks == 2

\* largest number of accept() and reject() calls that are followed
MaxCalls == 3

\* width in bytes of the values of every column
ValueBytes == 4

(* ------------------------------- state --------------------------------- *)

VARIABLES
  choices,             \* the evaluated choices of the current pass (input vector of select_indices)
  memory_budget,       \* the budget handed to select_indices
  evaluations,         \* select_indices' by-value parameter after std::sort
  memory_consumption,  \* local: tracked memory of the planned index set
  best_index,          \* local iterator, as a 1-based position (0 = begin - 1)
  worst_index,         \* local iterator, as a 1-based position
  operations,          \* IndexSelector::_operations
  pc,                  \* "idle" | "loop" | "done": position of the selector
  pass,                \* number of the current tuning pass
  sort_memo,           \* the orders std::sort has produced so far, per input vector
  previous_operations, \* the caller's copy of the operations the previous call returned
  plan,                \* the query plan handed to the plan walker: node id -> node, root = 1
  query_frequency,     \* the frequency handed to the plan walker
  inspector,           \* which walker runs: "lqp" | "pqp" | "operator" ("none": no walk)
  build,               \* "debug" | "release": whether DebugAssert is compiled in
  queue,               \* the walker's local work list (node ids)
  access_records,      \* BaseIndexEvaluator::_access_records
  walk_pc,             \* "off" | "ready" | "walking" | "returned" | "failed" | "aggregated"
  walk_error,          \* "none" | "bad_get" | "precondition": what ended a failed walk
  new_indexes,         \* BaseIndexEvaluator::_new_indexes
  processed,           \* the records handed to _process_access_record, in call order
  evaluator,           \* "index" (tuning/index/) | "legacy" (tuning/) ("none": no pass)
  cache_kind,          \* "gdfs" | "opaque": the implementation behind the plan cache
  cache,               \* the cache entries [plan, frequency] in iteration order
  entry_index,         \* position of _inspect_query_cache in the cache
  existing,            \* the indexes of the catalog: [column_ref, type, chunks]
  chunk_count,         \* the number of chunks of every table
  index_choices,       \* the choices the evaluator hands back
  previous_choices,    \* the caller's copy of the choices the previous pass handed back
  doubled,             \* the column references whose cache entries the workload has doubled
  pass_pc,             \* "off" | "start" | "inspect" | "evaluated" | "failed"
  apply_pc,            \* "off" | "applying" | "done": position of the apply loop
  apply_index,         \* position of the apply loop in the operations
  attempted,           \* the calls the apply loop has made: [operation, ok]
  failures,            \* the operations whose failure the apply loop has logged
  live,                \* the columns the catalog holds an index on while applying
  sql_pipeline_statements,   \* SQLPipeline::_sql_pipeline_statements, as statement types
  transaction_context,       \* "none" (no context given) | "active" | "aborted"
  requires_execution,        \* SQLPipeline::_requires_execution
  pipeline_was_executed,     \* SQLPipeline::_pipeline_was_executed
  failed_pipeline_statement, \* SQLPipeline::_failed_pipeline_statement (0 = nullptr)
  result_table,              \* SQLPipeline::_result_table: the statement it belongs to (0 = none)
  plan_caches,               \* which of the pipeline's plan vectors are filled
  statement_calls,           \* the statements the last get_result_table() has run, in call order
  sql_call                   \* the last call on the pipeline: [method, returned, asserted]

vars == <<choices, memory_budget, evaluations, memory_consumption, best_index,
          worst_index, operations, pc, pass, sort_memo, previous_operations,
          plan, query_frequency, inspector, build, queue, access_records, walk_pc,
          walk_error, new_indexes, processed,
          evaluator, cache_kind, cache, entry_index, existing, chunk_count,
          index_choices, previous_choices, doubled, pass_pc,
          apply_pc, apply_index, attempted, failures, live,
          sql_pipeline_statements, transaction_context, requires_execution,
          pipeline_was_executed, failed_pipeline_statement, result_table, plan_caches,
          statement_calls, sql_call>>

pipelineVars == <<sql_pipeline_statements, transaction_context, requires_execution,
                  pipeline_was_executed, failed_pipeline_statement, result_table,
                  plan_caches, statement_calls, sql_call>>

applyVars == <<apply_pc, apply_index, attempted, failures, live, pipelineVars>>

passVars == <<evaluator, cache_kind, cache, entry_index, existing, chunk_count,
              index_choices, previous_choices, doubled, pass_pc, applyVars>>

selectorVars == <<choices, memory_budget, evaluations, memory_consumption, best_index,
                  worst_index, operations, pc, pass, sort_memo, previous_operations>>

walkerVars == <<plan, query_frequency, inspector, build, queue, access_records, walk_pc,
                walk_error, new_indexes, processed>>

(* ----------------------------- data model ------------------------------ *)

\* The column a choice refers to. The selector only copies it into the
\* operations, so it is fixed by the choice's position: choices 2 and 3 are
\* two index types on one column, every other choice has a column of its own.
ColumnOf(i) == IF i < 3 THEN i ELSE i - 1

\* IndexEvaluation / IndexChoice: desirability (saved_work), exists, memory_cost
IndexEvaluation ==
  [desirability : (0 - MaxLoss) .. MaxGain, exists : BOOLEAN, memory_cost : 0 .. MaxCost]

\* IndexOperation(table_name, column_id, create); `choice` is the position of
\* the choice in the input vector the operation was planned for.
IndexOperation(evaluation, create) ==
  [choice |-> evaluation.id, column |-> ColumnOf(evaluation.id), create |-> create]

\* IndexChoice::_invalidates is never filled ("currently unused and empty")
InvalidatesOf(i) == {}

(* ------------------------------ helpers -------------------------------- *)

\* the sum that counts the candidates as well as the existing indexes
RECURSIVE InitialMemoryConsumptionOfAll(_)
InitialMemoryConsumptionOfAll(evals) ==
  IF evals = <<>> THEN 0
  ELSE Head(evals).memory_cost + InitialMemoryConsumptionOfAll(Tail(evals))

\* lines 186-191: memory consumed by the indexes that exist
RECURSIVE InitialMemoryConsumption(_)
InitialMemoryConsumption(evals) ==
  IF evals = <<>> THEN 0
  ELSE (IF Head(evals).exists THEN Head(evals).memory_cost ELSE 0)
       + InitialMemoryConsumption(Tail(evals))

\* IndexEvaluation::operator< orders evaluations by desirability
EvaluationLess(a, b) == a.desirability < b.desirability

\* the outcomes std::sort may produce: every ordering in which no element is
\* less than an earlier one (std::sort is not stable)
SortedOrders(input) ==
  LET n == Len(input)
      perms == {p \in [1 .. n -> 1 .. n] : \A i, j \in 1 .. n : i # j => p[i] # p[j]}
      tagged(p) == [k \in 1 .. n |->
                      [id |-> p[k], desirability |-> input[p[k]].desirability,
                       exists |-> input[p[k]].exists, memory_cost |-> input[p[k]].memory_cost]]
  IN {tagged(p) : p \in {q \in perms :
          \A i, j \in 1 .. n : i < j => ~EvaluationLess(input[q[j]], input[q[i]])}}

\* std::sort is a function of its input: sorting the same vector again
\* yields the order it yielded before
SortOutcomes(input, memo) ==
  LET known == {m \in memo : m.input = input}
  IN IF known = {} THEN SortedOrders(input) ELSE {m.order : m \in known}

\* mutant: the operations of the previous call are kept
KeptOperations(ops) == ops

\* line 176: _operations.clear()
ClearedOperations(ops) == <<>>

\* mutant: the negation of the worst desirability is lost
DeleteWorstPreferredUnnegated(worst, best) ==
  worst.desirability < 0 /\ worst.desirability > best.desirability

\* the delete is preferred only when the worst index is there to be deleted
DeleteWorstPreferredIfExisting(worst, best) ==
  worst.exists /\ worst.desirability < 0 /\ (0 - worst.desirability) > best.desirability

\* line 199: deleting the worst index is more beneficial than creating the best
DeleteWorstPreferred(worst, best) ==
  worst.desirability < 0 /\ (0 - worst.desirability) > best.desirability

\* mutant: the memory already in use is left out
RequiredMemoryIgnoringConsumption(best, consumption, budget) == best.memory_cost - budget

\* line 216: memory that must be freed before the best index fits
RequiredMemory(best, consumption, budget) == best.memory_cost + consumption - budget

\* mutant: the walk does not add up the desirability it sacrifices
RECURSIVE SacrificeWalkForgettingDesirability(_, _, _, _, _, _)
SacrificeWalkForgettingDesirability(evals, sacrifice_index, best_pos, required_memory, obtained_memory, sacrificed_desirability) ==
  IF obtained_memory < required_memory /\ sacrifice_index # best_pos
  THEN SacrificeWalkForgettingDesirability(
         evals, sacrifice_index + 1, best_pos, required_memory,
         obtained_memory + (IF evals[sacrifice_index].exists
                            THEN evals[sacrifice_index].memory_cost ELSE 0),
         sacrificed_desirability)
  ELSE [sacrifice_index |-> sacrifice_index, obtained_memory |-> obtained_memory,
        sacrificed_desirability |-> sacrificed_desirability]

\* lines 214-224: the sacrifice walk from the worst index towards the best
RECURSIVE SacrificeWalk(_, _, _, _, _, _)
SacrificeWalk(evals, sacrifice_index, best_pos, required_memory, obtained_memory, sacrificed_desirability) ==
  IF obtained_memory < required_memory /\ sacrifice_index # best_pos
  THEN IF evals[sacrifice_index].exists
       THEN SacrificeWalk(evals, sacrifice_index + 1, best_pos, required_memory,
                          obtained_memory + evals[sacrifice_index].memory_cost,
                          sacrificed_desirability + evals[sacrifice_index].desirability)
       ELSE SacrificeWalk(evals, sacrifice_index + 1, best_pos, required_memory,
                          obtained_memory, sacrificed_desirability)
  ELSE [sacrifice_index |-> sacrifice_index, obtained_memory |-> obtained_memory,
        sacrificed_desirability |-> sacrificed_desirability]

\* mutant: the sacrificed desirability is not compared with the gain
SwapAcceptedIgnoringSacrifice(walk, required_memory, best) ==
  walk.obtained_memory >= required_memory

\* mutant: the obtained memory is not compared with the required memory
SwapAcceptedIgnoringMemory(walk, required_memory, best) ==
  walk.sacrificed_desirability <= best.desirability

\* the swap is accepted only when the gain exceeds the sacrifice
SwapAcceptedStrictGain(walk, required_memory, best) ==
  /\ walk.obtained_memory >= required_memory
  /\ walk.sacrificed_desirability < best.desirability

\* line 225: enough memory is obtained and the sacrifice costs no more than the gain
SwapAccepted(walk, required_memory, best) ==
  /\ walk.obtained_memory >= required_memory
  /\ walk.sacrificed_desirability <= best.desirability

\* the best iterator stays where it is
BestKept(best_pos) == best_pos

\* lines 210 and 240: --best_index
BestMovedBack(best_pos) == best_pos - 1

\* the deletes of a swap planned for every position passed, index or not
RECURSIVE DeleteOperationsOfEveryPosition(_, _, _)
DeleteOperationsOfEveryPosition(evals, from, to) ==
  IF from >= to THEN <<>>
  ELSE <<IndexOperation(evals[from], FALSE)>>
       \o DeleteOperationsOfEveryPosition(evals, from + 1, to)

\* lines 227-233: the delete operations for the existing indexes in [from, to)
RECURSIVE DeleteOperations(_, _, _)
DeleteOperations(evals, from, to) ==
  IF from >= to THEN <<>>
  ELSE (IF evals[from].exists THEN <<IndexOperation(evals[from], FALSE)>> ELSE <<>>)
       \o DeleteOperations(evals, from + 1, to)

\* mutant: the create is planned before the deletes that make room for it
SwapOperationsCreateFirst(evals, from, to, best_pos) ==
  <<IndexOperation(evals[best_pos], TRUE)>> \o DeleteOperations(evals, from, to)

\* lines 227-237: the operations of an accepted swap, in the order they are planned
SwapOperations(evals, from, to, best_pos) ==
  DeleteOperations(evals, from, to) \o <<IndexOperation(evals[best_pos], TRUE)>>

\* apply phase of a pass: a drop makes the choice absent, a create makes it present
RECURSIVE ApplyOperations(_, _)
ApplyOperations(input, ops) ==
  IF ops = <<>> THEN input
  ELSE ApplyOperations([input EXCEPT ![Head(ops).choice].exists = Head(ops).create],
                       Tail(ops))

(* --------------------------- query plans ------------------------------- *)

\* A plan node. `left` and `right` are the ids of the inputs (0: none).
\* Logical plans: kind is "Predicate", "StoredTable" or "Projection" (any
\* other node type); `origin` is the node the predicate's column reference
\* originates in (0: none) and `column_id` the id of that column there.
\* Physical plans: kind is "TableScan", "GetTable", "Validate" or
\* "Projection" (any other operator); `column_id` is the scan's left column.
\* `literal` tells whether the right side of the predicate is a literal value
\* (an AllTypeVariant) and `compare_value` is that value.
\* Within one plan every predicate reads a column of its own (the node id),
\* so an access record names the scan it was emitted for.
PlanNode(id, kind, left, right, origin, literal) ==
  [kind |-> kind, left |-> left, right |-> right, origin |-> origin, literal |-> literal,
   table_name |-> IF kind \in {"StoredTable", "GetTable"}
                  THEN (IF id % 2 = 1 THEN "t" ELSE "u") ELSE "",
   column_id |-> IF kind \in {"Predicate", "TableScan"} THEN id ELSE 0,
   condition |-> IF kind \in {"Predicate", "TableScan"}
                 THEN (IF id % 2 = 1 THEN "Equals" ELSE "LessThan") ELSE "",
   compare_value |-> IF kind \in {"Predicate", "TableScan"} /\ literal THEN 4 ELSE 0]

\* the nodes that may stand at position id of a logical plan of n nodes:
\* a predicate has one input, a stored table has none, any other node has
\* up to two
LqpNodes(id, n) ==
  LET below == id + 1 .. n
  IN {PlanNode(id, "Predicate", l, 0, o, lit) :
          l \in below, o \in {0} \cup below, lit \in BOOLEAN}
     \cup {PlanNode(id, "StoredTable", 0, 0, 0, TRUE)}
     \cup {PlanNode(id, "Projection", l, r, 0, TRUE) : l \in below, r \in {0} \cup below}

\* the nodes that may stand at position id of a physical plan of n nodes:
\* a scan and a Validate have one input, a GetTable has none, any other
\* operator has up to two
PqpNodes(id, n) ==
  LET below == id + 1 .. n
  IN {PlanNode(id, "TableScan", l, 0, 0, lit) : l \in below, lit \in BOOLEAN}
     \cup {PlanNode(id, "Validate", l, 0, 0, TRUE) : l \in below}
     \cup {PlanNode(id, "GetTable", 0, 0, 0, TRUE)}
     \cup {PlanNode(id, "Projection", l, r, 0, TRUE) : l \in below, r \in {0} \cup below}

\* every node but the root is an input of an earlier node
Connected(p) ==
  \A i \in DOMAIN p : i > 1 => \E j \in 1 .. i - 1 : p[j].left = i \/ p[j].right = i

\* a subplan shared by two parents: 1 -> {2, 3}, 2 -> 4, 3 -> 4, 4 -> 5
SharedSubplan(scan_kind, table_kind, literal) ==
  <<PlanNode(1, "Projection", 2, 3, 0, TRUE), PlanNode(2, "Projection", 4, 0, 0, TRUE),
    PlanNode(3, "Projection", 4, 0, 0, TRUE),
    PlanNode(4, scan_kind, 5, 0, IF scan_kind = "Predicate" THEN 5 ELSE 0, literal),
    PlanNode(5, table_kind, 0, 0, 0, TRUE)>>

\* the node sequences id .. n of the plans of n nodes
RECURSIVE PlanTails(_, _, _)
PlanTails(logical, id, n) ==
  IF id > n THEN {<<>>}
  ELSE {<<x>> \o t : x \in (IF logical THEN LqpNodes(id, n) ELSE PqpNodes(id, n)),
                     t \in PlanTails(logical, id + 1, n)}

\* the logical plans handed to _inspect_lqp_operator
LqpPlans ==
  UNION {{p \in PlanTails(TRUE, 1, n) : Connected(p)} : n \in 1 .. MaxNodes}
  \cup {SharedSubplan("Predicate", "StoredTable", lit) : lit \in BOOLEAN}

\* the physical plans handed to _inspect_pqp_operator and _inspect_operator
PqpPlans ==
  UNION {{p \in PlanTails(FALSE, 1, n) : Connected(p)} : n \in 1 .. MaxNodes}
  \cup {SharedSubplan("TableScan", "GetTable", lit) : lit \in BOOLEAN}

\* ColumnRef{table_name, column_id}
ColumnRef(table_name, column_id) == [table_name |-> table_name, column_id |-> column_id]

\* AccessRecord(table_name, column_id, query_frequency) with its condition
\* and compare_value
AccessRecord(table_name, column_id, frequency, condition, compare_value) ==
  [column_ref |-> ColumnRef(table_name, column_id), query_frequency |-> frequency,
   condition |-> condition, compare_value |-> compare_value]

\* a record an earlier walk of the same pass left in the buffer
EarlierRecord == AccessRecord("t", 0, 1, "Equals", 4)

\* the walker and the aggregation do not run
WalkerOff ==
  /\ plan = <<>>
  /\ query_frequency = 0
  /\ inspector = "none"
  /\ build = "release"
  /\ queue = <<>>
  /\ access_records = <<>>
  /\ walk_pc = "off"
  /\ walk_error = "none"
  /\ new_indexes = {}
  /\ processed = <<>>

\* what a call on the pipeline hands back: the number of a statement or of
\* plans (0 = nullptr), or a failed Assert
CallResult(method, returned, asserted) ==
  [method |-> method, returned |-> returned, asserted |-> asserted]

\* no SQL pipeline has been constructed
PipelineOff ==
  /\ sql_pipeline_statements = <<>>
  /\ transaction_context = "none"
  /\ requires_execution = FALSE
  /\ pipeline_was_executed = FALSE
  /\ failed_pipeline_statement = 0
  /\ result_table = 0
  /\ plan_caches = {}
  /\ statement_calls = <<>>
  /\ sql_call = CallResult("none", 0, FALSE)

\* the apply loop does not run
ApplyOff ==
  /\ apply_pc = "off"
  /\ apply_index = 0
  /\ attempted = <<>>
  /\ failures = <<>>
  /\ live = {}

\* no evaluator pass runs
PassOff ==
  /\ ApplyOff
  /\ PipelineOff
  /\ evaluator = "none"
  /\ cache_kind = "gdfs"
  /\ cache = <<>>
  /\ entry_index = 0
  /\ existing = <<>>
  /\ chunk_count = 1
  /\ index_choices = <<>>
  /\ previous_choices = <<>>
  /\ doubled = {}
  /\ pass_pc = "off"

(* ------------------------------ actions -------------------------------- *)

Init ==
  /\ \E n \in 0 .. MaxChoices : choices \in [1 .. n -> IndexEvaluation]
  /\ memory_budget \in 0 .. MaxBudget
  /\ evaluations = <<>>
  /\ memory_consumption = 0
  /\ best_index = 0
  /\ worst_index = 1
  /\ operations = <<>>
  /\ pc = "idle"
  /\ pass = 1
  /\ sort_memo = {}
  /\ previous_operations = <<>>
  /\ WalkerOff
  /\ PassOff

\* lines 174-194: clear the operations, return at once on an empty input,
\* else sort, sum up the existing memory and set both iterators
SelectBegin ==
  /\ pc = "idle"
  /\ operations' = ClearedOperations(operations)
  /\ IF Len(choices) = 0
     THEN /\ pc' = "done"
          /\ evaluations' = <<>>
          /\ memory_consumption' = 0
          /\ best_index' = 0
          /\ worst_index' = 1
          /\ UNCHANGED sort_memo
     ELSE /\ evaluations' \in SortOutcomes(choices, sort_memo)
          /\ sort_memo' = sort_memo \cup {[input |-> choices, order |-> evaluations']}
          /\ memory_consumption' = InitialMemoryConsumption(evaluations')
          /\ best_index' = Len(choices)
          /\ worst_index' = 1
          /\ pc' = "loop"
  /\ UNCHANGED <<choices, memory_budget, pass, previous_operations>>
  /\ UNCHANGED walkerVars
  /\ UNCHANGED passVars

\* lines 199-206: the worst index is dropped (if it exists) and passed
DeleteWorst ==
  /\ pc = "loop"
  /\ best_index >= worst_index
  /\ DeleteWorstPreferred(evaluations[worst_index], evaluations[best_index])
  /\ IF evaluations[worst_index].exists
     THEN /\ operations' = Append(operations, IndexOperation(evaluations[worst_index], FALSE))
          /\ memory_consumption' = memory_consumption - evaluations[worst_index].memory_cost
     ELSE UNCHANGED <<operations, memory_consumption>>
  /\ worst_index' = worst_index + 1
  /\ UNCHANGED <<choices, memory_budget, evaluations, best_index, pc, pass, sort_memo,
                 previous_operations>>
  /\ UNCHANGED walkerVars
  /\ UNCHANGED passVars

\* lines 209-210: the best index is already in place
KeepBest ==
  /\ pc = "loop"
  /\ best_index >= worst_index
  /\ ~DeleteWorstPreferred(evaluations[worst_index], evaluations[best_index])
  /\ evaluations[best_index].exists
  /\ best_index' = BestMovedBack(best_index)
  /\ UNCHANGED <<choices, memory_budget, evaluations, memory_consumption, worst_index,
                 operations, pc, pass, sort_memo, previous_operations>>
  /\ UNCHANGED walkerVars
  /\ UNCHANGED passVars

\* lines 211-239: try to install the best index, sacrificing worse existing ones
InstallBest ==
  /\ pc = "loop"
  /\ best_index >= worst_index
  /\ ~DeleteWorstPreferred(evaluations[worst_index], evaluations[best_index])
  /\ ~evaluations[best_index].exists
  /\ LET best == evaluations[best_index]
         required_memory == RequiredMemory(best, memory_consumption, memory_budget)
         walk == SacrificeWalk(evaluations, worst_index, best_index, required_memory, 0, 0)
     IN IF SwapAccepted(walk, required_memory, best)
        THEN /\ operations' = operations \o
                    SwapOperations(evaluations, worst_index, walk.sacrifice_index, best_index)
             /\ memory_consumption' =
                    memory_consumption - walk.obtained_memory + best.memory_cost
             /\ worst_index' = walk.sacrifice_index
        ELSE UNCHANGED <<operations, memory_consumption, worst_index>>
  /\ best_index' = BestMovedBack(best_index)
  /\ UNCHANGED <<choices, memory_budget, evaluations, pc, pass, sort_memo,
                 previous_operations>>
  /\ UNCHANGED walkerVars
  /\ UNCHANGED passVars

\* lines 198, 244: the iterators have crossed, the operations are returned
SelectReturn ==
  /\ pc = "loop"
  /\ best_index < worst_index
  /\ pc' = "done"
  /\ UNCHANGED <<choices, memory_budget, evaluations, memory_consumption, best_index,
                 worst_index, operations, pass, sort_memo, previous_operations>>
  /\ UNCHANGED walkerVars
  /\ UNCHANGED passVars

\* the returned operations are applied and the tuner is executed again
ApplyAndRepeat ==
  /\ pc = "done"
  /\ pass < MaxPasses
  /\ choices' = ApplyOperations(choices, operations)
  /\ pass' = pass + 1
  /\ pc' = "idle"
  /\ UNCHANGED <<memory_budget, evaluations, memory_consumption, best_index, worst_index,
                 operations, sort_memo, previous_operations>>
  /\ UNCHANGED walkerVars
  /\ UNCHANGED passVars

\* the selector is called again on the same choices (same plan cache, same
\* catalog snapshot); the caller keeps the list the previous call returned
RerunSameSnapshot ==
  /\ pc = "done"
  /\ pass < MaxPasses
  /\ previous_operations' = operations
  /\ pass' = pass + 1
  /\ pc' = "idle"
  /\ UNCHANGED <<choices, memory_budget, evaluations, memory_consumption, best_index,
                 worst_index, operations, sort_memo>>
  /\ UNCHANGED walkerVars
  /\ UNCHANGED passVars

Next ==
  \/ SelectBegin
  \/ DeleteWorst
  \/ KeepBest
  \/ InstallBest
  \/ SelectReturn
  \/ ApplyAndRepeat

Spec == Init /\ [][Next]_vars

\* the selector called repeatedly on one snapshot
NextRerun ==
  \/ SelectBegin
  \/ DeleteWorst
  \/ KeepBest
  \/ InstallBest
  \/ SelectReturn
  \/ RerunSameSnapshot

RerunSpec == Init /\ [][NextRerun]_vars

(* ------------------- vocabulary of the properties ---------------------- *)

RECURSIVE SumOver(_, _)
SumOver(S, f) ==
  IF S = {} THEN 0
  ELSE LET x == CHOOSE y \in S : TRUE IN f[x] + SumOver(S \ {x}, f)

MaxOf(S) == CHOOSE x \in S : \A y \in S : y <= x

Returned == pc = "done"

CostOfChoice == [i \in DOMAIN choices |-> choices[i].memory_cost]

SavedWorkOfChoice == [i \in DOMAIN choices |-> choices[i].desirability]

\* the choices whose index is live once the first k operations are applied
LiveAfter(k) ==
  {i \in DOMAIN choices :
     LET touching == {j \in 1 .. k : operations[j].choice = i}
     IN IF touching = {} THEN choices[i].exists ELSE operations[MaxOf(touching)].create}

LiveBefore == LiveAfter(0)

LiveAtEnd == LiveAfter(Len(operations))

CreatedChoices == {operations[j].choice : j \in {k \in DOMAIN operations : operations[k].create}}

DroppedChoices == {operations[j].choice : j \in {k \in DOMAIN operations : ~operations[k].create}}

\* positions of the operations planned for choice i
OperationsOn(i) == {j \in DOMAIN operations : operations[j].choice = i}

(* ------------------------------ claims --------------------------------- *)

\* C1: budget safety. Once select_indices has returned, the memory of the
\* indexes that are live after applying all its operations is within the budget.
BudgetSafety ==
  Returned => SumOver(LiveAtEnd, CostOfChoice) <= memory_budget

\* C2: monotonicity. The saved work of the index set that is live after the
\* returned operations is at least the saved work of the pre-pass index set.
Monotonicity ==
  Returned => SumOver(LiveAtEnd, SavedWorkOfChoice) >= SumOver(LiveBefore, SavedWorkOfChoice)

\* a pass that both dropped a beneficial index and created one, with a strict gain
MonotonicityWitness ==
  /\ Returned
  /\ \E i \in DroppedChoices : choices[i].desirability > 0
  /\ CreatedChoices # {}
  /\ SumOver(LiveAtEnd, SavedWorkOfChoice) > SumOver(LiveBefore, SavedWorkOfChoice)

\* C3: idempotence. The pass that follows the application of the operations
\* of the previous pass, under the same budget, returns no operation.
Idempotence ==
  (Returned /\ pass > 1) => operations = <<>>

\* largest memory cost among the indexes created in the pass (0 if none)
LargestCreatedCost ==
  IF CreatedChoices = {} THEN 0 ELSE MaxOf({choices[i].memory_cost : i \in CreatedChoices})

\* C4: after every prefix of the returned operations, the live memory exceeds
\* the budget by at most the cost of the largest index created in the pass.
PrefixBudgetSafety ==
  Returned =>
    \A k \in 0 .. Len(operations) :
      SumOver(LiveAfter(k), CostOfChoice) <= memory_budget + LargestCreatedCost

\* the operations one step has appended
Added == SubSeq(operations', Len(operations) + 1, Len(operations'))

\* the step planned a create (only a swap step does)
CreateStep ==
  /\ pc = "loop"
  /\ \E k \in (Len(operations) + 1) .. Len(operations') : operations'[k].create

\* positions of the existing evaluations the step has passed with the worst iterator
PassedExisting == {p \in worst_index .. (worst_index' - 1) : evaluations[p].exists}

\* C5: in a swap step the drops of the sacrificed indexes are appended in
\* ascending traversal order, directly followed by the create of the new index.
SwapStepOrdering ==
  [][CreateStep =>
       LET m == Len(Added)
       IN /\ SubSeq(operations', 1, Len(operations)) = operations
          /\ m = Cardinality(PassedExisting) + 1
          /\ Added[m] = [choice |-> evaluations[best_index].id,
                          column |-> ColumnOf(evaluations[best_index].id), create |-> TRUE]
          /\ \A k \in 1 .. (m - 1) :
               /\ ~Added[k].create
               /\ \E p \in PassedExisting :
                    /\ evaluations[p].id = Added[k].choice
                    /\ Cardinality({q \in PassedExisting : q < p}) = k - 1]_vars

\* a returned list that starts with two sacrificed beneficial indexes and their create
SwapStepOrderingWitness ==
  /\ Returned
  /\ Len(operations) >= 3
  /\ ~operations[1].create /\ ~operations[2].create /\ operations[3].create
  /\ choices[operations[1].choice].desirability >= 0
  /\ choices[operations[2].choice].desirability >= choices[operations[1].choice].desirability

\* saved work given up by the drops a step has appended
AddedDropsSavedWork ==
  SumOver({k \in DOMAIN Added : ~Added[k].create},
          [k \in DOMAIN Added |-> choices[Added[k].choice].desirability])

\* the step dropped an index that is not a net drag
DropsBeneficial ==
  /\ pc = "loop"
  /\ \E k \in DOMAIN Added : ~Added[k].create /\ choices[Added[k].choice].desirability >= 0

NegativeExistingDropped ==
  Returned =>
    \A i \in DOMAIN choices :
      (choices[i].exists /\ choices[i].desirability < 0) =>
        /\ Cardinality(OperationsOn(i)) = 1
        /\ \A j \in OperationsOn(i) : ~operations[j].create

\* a net-drag index next to a better existing index and a created candidate
NegativeExistingDroppedWitness ==
  /\ Returned
  /\ \E i \in DroppedChoices : choices[i].desirability < 0
  /\ \E i \in DOMAIN choices : choices[i].exists /\ choices[i].desirability > 0
  /\ CreatedChoices # {}

\* two candidates for the same column are mutually exclusive alternatives
Invalidate(a, b) ==
  /\ a # b
  /\ ColumnOf(a) = ColumnOf(b)
  /\ ~choices[a].exists
  /\ ~choices[b].exists

\* C8: of two candidates that invalidate each other at most one is created.
InvalidatesRespected ==
  Returned =>
    \A a, b \in CreatedChoices : ~Invalidate(a, b)

\* the input of a budget-forced swap: the only existing index e has saved work
\* 0, the only candidate n has positive saved work, does not fit next to e and
\* fits without it
ForcedSwapCase(e, n) ==
  /\ Len(choices) = 2
  /\ e # n
  /\ choices[e].exists /\ choices[e].desirability = 0
  /\ ~choices[n].exists /\ choices[n].desirability > 0
  /\ choices[n].memory_cost + choices[e].memory_cost > memory_budget
  /\ choices[n].memory_cost <= memory_budget

\* C9: on the input of a budget-forced swap the returned list is exactly
\* <<drop existing, create candidate>>.
BudgetForcedSwap ==
  Returned =>
    \A e, n \in DOMAIN choices :
      ForcedSwapCase(e, n) =>
        operations = <<[choice |-> e, column |-> ColumnOf(e), create |-> FALSE],
                       [choice |-> n, column |-> ColumnOf(n), create |-> TRUE]>>

\* a returned budget-forced swap whose candidate consumes memory
BudgetForcedSwapWitness ==
  /\ Returned
  /\ \E e, n \in DOMAIN choices : ForcedSwapCase(e, n) /\ choices[n].memory_cost > 0

CostAt == [p \in DOMAIN evaluations |-> evaluations[p].memory_cost]

SavedWorkAt == [p \in DOMAIN evaluations |-> evaluations[p].desirability]

\* memory missing for the candidate at position b
MissingFor(b) == evaluations[b].memory_cost + memory_consumption - memory_budget

\* the live existing indexes ranked below the candidate at position b
LiveBelow(b) == {p \in worst_index .. (b - 1) : evaluations[p].exists}

LiveBelowUpTo(b, q) == {p \in LiveBelow(b) : p <= q}

\* dropping every live index ranked below the candidate frees too little
CannotFree(b) ==
  /\ MissingFor(b) > 0
  /\ SumOver(LiveBelow(b), CostAt) < MissingFor(b)

\* the shortest run of live indexes, worst first, that frees enough memory
\* gives up more saved work than the candidate brings
TooExpensive(b) ==
  /\ MissingFor(b) > 0
  /\ \E q \in LiveBelow(b) :
       /\ SumOver(LiveBelowUpTo(b, q), CostAt) >= MissingFor(b)
       /\ \A r \in LiveBelow(b) :
            r < q => SumOver(LiveBelowUpTo(b, r), CostAt) < MissingFor(b)
       /\ SumOver(LiveBelowUpTo(b, q), SavedWorkAt) > evaluations[b].desirability

\* the step has considered the candidate the best iterator points to
ConsidersCandidate ==
  /\ pc = "loop"
  /\ best_index >= worst_index
  /\ ~evaluations[best_index].exists
  /\ best_index' = best_index - 1

\* C10 (unprofitable swap rejected): a candidate whose room would cost more
\* saved work than it brings, or cannot be freed at all, gets no create, and
\* the step that considers it drops nothing.
UnprofitableSwapRejected ==
  [][(ConsidersCandidate /\ (CannotFree(best_index) \/ TooExpensive(best_index))) =>
       /\ operations' = operations
       /\ memory_consumption' = memory_consumption
       /\ worst_index' = worst_index]_vars

\* the candidate just passed by the best iterator was too expensive and got
\* no operation, with at least two live indexes ranked below it
UnprofitableSwapRejectedWitness ==
  /\ pc = "loop"
  /\ best_index + 1 \in DOMAIN evaluations
  /\ best_index + 1 >= worst_index
  /\ ~evaluations[best_index + 1].exists
  /\ TooExpensive(best_index + 1)
  /\ Cardinality(LiveBelow(best_index + 1)) >= 2
  /\ OperationsOn(evaluations[best_index + 1].id) = {}

(* ---------------------------- plan walkers ----------------------------- *)

\* queue.push_back of the inputs a node has, left before right
EnqueueInputs(q, node) ==
  q \o (IF node.left # 0 THEN <<node.left>> ELSE <<>>)
    \o (IF node.right # 0 THEN <<node.right>> ELSE <<>>)

\* mutant: the type of the node the column originates in is not looked at
LqpIndexableAnyOrigin(p, node) ==
  /\ node.kind = "Predicate"
  /\ node.origin # 0

\* index/base_index_evaluator.cpp lines 125-138: a predicate whose column
\* reference originates in a stored table
LqpIndexable(p, node) ==
  /\ node.kind = "Predicate"
  /\ node.origin # 0
  /\ p[node.origin].kind = "StoredTable"

\* mutant: the record does not carry the frequency of the query
LqpRecordOfOneAccess(p, node, frequency) ==
  AccessRecord(p[node.origin].table_name, node.column_id, 1, node.condition,
               node.compare_value)

\* lines 143-145: the record of a logical predicate
LqpRecord(p, node, frequency) ==
  AccessRecord(p[node.origin].table_name, node.column_id, frequency, node.condition,
               node.compare_value)

\* lines 174-175: DebugAssert that the scan's left input is no Validate
ValidateRejected(p, node, mode) ==
  mode = "debug" /\ node.left # 0 /\ p[node.left].kind = "Validate"

\* line 176: a scan whose left input is a GetTable
PqpIndexable(p, node) ==
  /\ node.kind = "TableScan"
  /\ node.left # 0
  /\ p[node.left].kind = "GetTable"

\* lines 177-181: the record of a physical scan; compare_value stays
\* default-constructed when the right parameter holds no AllTypeVariant
PqpRecord(p, node, frequency) ==
  AccessRecord(p[node.left].table_name, node.column_id, frequency, node.condition,
               node.compare_value)

\* base_index_evaluator.cpp lines 95-97: a scan over a Validate over a GetTable
OperatorIndexable(p, node) ==
  /\ node.kind = "TableScan"
  /\ node.left # 0
  /\ p[node.left].kind = "Validate"
  /\ p[node.left].left # 0
  /\ p[p[node.left].left].kind = "GetTable"

\* base_index_evaluator.cpp lines 98-102
OperatorRecord(p, node, frequency) ==
  AccessRecord(p[p[node.left].left].table_name, node.column_id, frequency, node.condition,
               node.compare_value)

\* a walker is called on the plan: queue.push_back(op)
InspectCall ==
  /\ walk_pc = "ready"
  /\ queue' = <<1>>
  /\ walk_pc' = "walking"
  /\ UNCHANGED <<plan, query_frequency, inspector, build, access_records, walk_error,
                 new_indexes, processed>>
  /\ UNCHANGED selectorVars
  /\ UNCHANGED passVars

\* index/base_index_evaluator.cpp lines 113-157: one iteration of
\* _inspect_lqp_operator; boost::get throws when the value is no literal
InspectLqpNode ==
  /\ walk_pc = "walking"
  /\ inspector = "lqp"
  /\ queue # <<>>
  /\ LET node == plan[Head(queue)]
         rest == EnqueueInputs(Tail(queue), node)
     IN IF LqpIndexable(plan, node)
        THEN IF node.literal
             THEN /\ access_records' =
                       Append(access_records, LqpRecord(plan, node, query_frequency))
                  /\ queue' = rest
                  /\ UNCHANGED <<walk_pc, walk_error>>
             ELSE /\ walk_pc' = "failed"
                  /\ walk_error' = "bad_get"
                  /\ queue' = <<>>
                  /\ UNCHANGED access_records
        ELSE /\ queue' = rest
             /\ UNCHANGED <<access_records, walk_pc, walk_error>>
  /\ UNCHANGED <<plan, query_frequency, inspector, build, new_indexes, processed>>
  /\ UNCHANGED selectorVars
  /\ UNCHANGED passVars

\* index/base_index_evaluator.cpp lines 164-191: one iteration of
\* _inspect_pqp_operator; the inputs of a TableScan are not enqueued
InspectPqpNode ==
  /\ walk_pc = "walking"
  /\ inspector = "pqp"
  /\ queue # <<>>
  /\ LET node == plan[Head(queue)]
     IN IF node.kind = "TableScan"
        THEN IF ValidateRejected(plan, node, build)
             THEN /\ walk_pc' = "failed"
                  /\ walk_error' = "precondition"
                  /\ queue' = <<>>
                  /\ UNCHANGED access_records
             ELSE IF PqpIndexable(plan, node)
             THEN /\ access_records' =
                       Append(access_records, PqpRecord(plan, node, query_frequency))
                  /\ IF node.literal
                     THEN /\ queue' = Tail(queue)
                          /\ UNCHANGED <<walk_pc, walk_error>>
                     ELSE /\ walk_pc' = "failed"
                          /\ walk_error' = "bad_get"
                          /\ queue' = <<>>
             ELSE /\ queue' = Tail(queue)
                  /\ UNCHANGED <<access_records, walk_pc, walk_error>>
        ELSE /\ queue' = EnqueueInputs(Tail(queue), node)
             /\ UNCHANGED <<access_records, walk_pc, walk_error>>
  /\ UNCHANGED <<plan, query_frequency, inspector, build, new_indexes, processed>>
  /\ UNCHANGED selectorVars
  /\ UNCHANGED passVars

\* base_index_evaluator.cpp lines 92-113: one iteration of _inspect_operator;
\* the else branch enqueues the inputs of the root `op`, not of `node`
InspectOperatorNode ==
  /\ walk_pc = "walking"
  /\ inspector = "operator"
  /\ queue # <<>>
  /\ Len(queue) <= MaxQueue
  /\ Len(access_records) <= MaxRecords
  /\ LET node == plan[Head(queue)]
     IN IF node.kind = "TableScan"
        THEN IF OperatorIndexable(plan, node)
             THEN /\ access_records' =
                       Append(access_records, OperatorRecord(plan, node, query_frequency))
                  /\ IF node.literal
                     THEN /\ queue' = Tail(queue)
                          /\ UNCHANGED <<walk_pc, walk_error>>
                     ELSE /\ walk_pc' = "failed"
                          /\ walk_error' = "bad_get"
                          /\ queue' = <<>>
             ELSE /\ queue' = Tail(queue)
                  /\ UNCHANGED <<access_records, walk_pc, walk_error>>
        ELSE /\ queue' = EnqueueInputs(Tail(queue), plan[1])
             /\ UNCHANGED <<access_records, walk_pc, walk_error>>
  /\ UNCHANGED <<plan, query_frequency, inspector, build, new_indexes, processed>>
  /\ UNCHANGED selectorVars
  /\ UNCHANGED passVars

\* the work list is empty: the walker returns
InspectReturn ==
  /\ walk_pc = "walking"
  /\ queue = <<>>
  /\ walk_pc' = "returned"
  /\ UNCHANGED <<plan, query_frequency, inspector, build, queue, access_records,
                 walk_error, new_indexes, processed>>
  /\ UNCHANGED selectorVars
  /\ UNCHANGED passVars

\* mutant: _new_indexes is not cleared before the records are inserted
UnclearedIndexes(stale) == stale

\* line 195: _new_indexes.clear()
ClearedIndexes(stale) == {}

\* lines 196-199: the loop over the records: insert the column reference,
\* then hand the record to _process_access_record
RECURSIVE AggregateLoop(_, _, _)
AggregateLoop(records, indexes, calls) ==
  IF records = <<>> THEN [new_indexes |-> indexes, processed |-> calls]
  ELSE AggregateLoop(Tail(records), indexes \cup {Head(records).column_ref},
                     Append(calls, Head(records)))

\* index/base_index_evaluator.cpp lines 194-200: _aggregate_access_records
AggregateAccessRecords ==
  /\ walk_pc = "returned"
  /\ entry_index = Len(cache)
  /\ LET result == AggregateLoop(access_records, ClearedIndexes(new_indexes), processed)
     IN /\ new_indexes' = result.new_indexes
        /\ processed' = result.processed
  /\ walk_pc' = "aggregated"
  /\ UNCHANGED <<plan, query_frequency, inspector, build, queue, access_records,
                 walk_error>>
  /\ UNCHANGED selectorVars
  /\ UNCHANGED passVars

\* the selector does not run
SelectorOff ==
  /\ choices = <<>>
  /\ memory_budget = 0
  /\ evaluations = <<>>
  /\ memory_consumption = 0
  /\ best_index = 0
  /\ worst_index = 1
  /\ operations = <<>>
  /\ pc = "off"
  /\ pass = 1
  /\ sort_memo = {}
  /\ previous_operations = <<>>

\* a column reference an earlier pass left in _new_indexes
StaleColumnRef == ColumnRef("u", 0)

\* a walker is about to be called on a plan; the record buffer may hold the
\* records of an earlier plan of the same cache
WalkInit ==
  /\ SelectorOff
  /\ PassOff
  /\ \/ inspector = "lqp" /\ plan \in LqpPlans /\ build = "release"
     \/ inspector = "pqp" /\ plan \in PqpPlans /\ build \in {"debug", "release"}
     \/ inspector = "operator" /\ plan \in PqpPlans /\ build = "release"
  /\ query_frequency \in 1 .. MaxFrequency
  /\ queue = <<>>
  /\ access_records \in {<<>>, <<EarlierRecord>>}
  /\ walk_pc = "ready"
  /\ walk_error = "none"
  /\ new_indexes = IF access_records = <<>> THEN {} ELSE {StaleColumnRef}
  /\ processed = <<>>

WalkNext ==
  \/ InspectCall
  \/ InspectLqpNode
  \/ InspectPqpNode
  \/ InspectOperatorNode
  \/ InspectReturn
  \/ AggregateAccessRecords

WalkSpec == WalkInit /\ [][WalkNext]_vars

(* --------------------------- evaluator pass ---------------------------- *)

\* the logical plans the cache of the index evaluator may hold: a predicate
\* on u.1, a projection over a predicate on t.2, a query without predicate
CachedLqpPlans ==
  {<<PlanNode(1, "Predicate", 2, 0, 2, TRUE), PlanNode(2, "StoredTable", 0, 0, 0, TRUE)>>,
   <<PlanNode(1, "Projection", 2, 0, 0, TRUE), PlanNode(2, "Predicate", 3, 0, 3, TRUE),
     PlanNode(3, "StoredTable", 0, 0, 0, TRUE)>>,
   <<PlanNode(1, "Projection", 2, 0, 0, TRUE), PlanNode(2, "StoredTable", 0, 0, 0, TRUE)>>}

\* the physical plans the cache of the legacy evaluator may hold: a scan of
\* t.1, a projection over a scan of u.2 (both with MVCC), a query without scan
CachedPqpPlans ==
  {<<PlanNode(1, "TableScan", 2, 0, 0, TRUE), PlanNode(2, "Validate", 3, 0, 0, TRUE),
     PlanNode(3, "GetTable", 0, 0, 0, TRUE)>>,
   <<PlanNode(1, "Projection", 2, 0, 0, TRUE), PlanNode(2, "TableScan", 3, 0, 0, TRUE),
     PlanNode(3, "Validate", 4, 0, 0, TRUE), PlanNode(4, "GetTable", 0, 0, 0, TRUE)>>,
   <<PlanNode(1, "Projection", 2, 0, 0, TRUE), PlanNode(2, "GetTable", 0, 0, 0, TRUE)>>}

\* the columns of the catalog that may carry an index
CatalogRefs(which) ==
  IF which = "index" THEN {ColumnRef("u", 1), ColumnRef("t", 2)}
  ELSE {ColumnRef("t", 1), ColumnRef("u", 2)}

\* the order of column references (by table name, then by column id)
RefKey(ref) == (IF ref.table_name = "t" THEN 0 ELSE 100) + ref.column_id

\* the column references of S in ascending order, as std::set iterates them
RECURSIVE SortedRefs(_)
SortedRefs(S) ==
  IF S = {} THEN <<>>
  ELSE LET first == CHOOSE r \in S : \A q \in S : RefKey(r) <= RefKey(q)
       IN <<first>> \o SortedRefs(S \ {first})

\* the index types of the catalog
IndexTypes == {"GroupKey", "AdaptiveRadixTree"}

\* an index of the catalog: its columns, its type and the chunks that hold it
IndexInfo(ref, type, chunks) == [column_ref |-> ref, type |-> type, chunks |-> chunks]

\* the catalogs of tables with n chunks: any subset of the columns carries an
\* index of some type, held by some of the chunks
Catalogs(which, n) ==
  UNION {{[i \in DOMAIN SortedRefs(S) |->
             IndexInfo(SortedRefs(S)[i], f[i].type, f[i].chunks)] :
          f \in [DOMAIN SortedRefs(S) ->
                   [type : IndexTypes, chunks : (SUBSET (1 .. n)) \ {{}}]]} :
         S \in SUBSET CatalogRefs(which)}

\* index/base_index_evaluator.cpp lines 206-207: table->get_indexes(), every
\* index of the table; base_index_evaluator.cpp lines 127-133:
\* first_chunk->get_indices(column_ids), the indexes held by the first chunk
ListedIndexes(which, catalog) ==
  IF which = "index" THEN catalog
  ELSE SelectSeq(catalog, LAMBDA info : 1 \in info.chunks)

\* chunk->get_index(type, column_ids): the chunk holds such an index
GetIndex(catalog, chunk_id, type, ref) ==
  \E i \in DOMAIN catalog :
    /\ catalog[i].column_ref = ref
    /\ catalog[i].type = type
    /\ chunk_id \in catalog[i].chunks

\* index->memory_consumption() of the part of an index one chunk holds
ChunkIndexMemory(type) == IF type = "GroupKey" THEN 1 ELSE 2

\* the sum that counts every chunk of the table, with or without the index
RECURSIVE ExistingMemoryCostOfAllChunks(_, _, _, _)
ExistingMemoryCostOfAllChunks(catalog, ref, type, chunks) ==
  IF chunks = 0 THEN 0
  ELSE ExistingMemoryCostOfAllChunks(catalog, ref, type, chunks - 1) + ChunkIndexMemory(type)

\* index/base_index_evaluator.cpp lines 61-72 (base_index_evaluator.cpp lines
\* 51-62): _existing_memory_cost, the sum over the first `chunks` chunks of
\* the memory of the index, where the chunk holds it
RECURSIVE ExistingMemoryCost(_, _, _, _)
ExistingMemoryCost(catalog, ref, type, chunks) ==
  IF chunks = 0 THEN 0
  ELSE ExistingMemoryCost(catalog, ref, type, chunks - 1)
       + (IF GetIndex(catalog, chunks, type, ref) THEN ChunkIndexMemory(type) ELSE 0)

\* column_statistics->distinct_count() of the column
DistinctCount(ref) == ref.column_id

\* BaseIndex::predict_memory_consumption(type, row_count, value_count, value_bytes)
PredictMemoryConsumption(type, row_count, value_count, value_bytes) ==
  value_count + (row_count * value_bytes) \div 16

\* aggregate_node.cpp lines 386-412: _predict_memory_cost, the per-chunk
\* prediction for an even share of the rows and of the distinct values, times
\* the number of chunks
PredictMemoryCost(ref, type, chunks) ==
  LET chunk_rows == TableRows \div chunks
      chunk_distinct_values == DistinctCount(ref) \div chunks
  IN PredictMemoryConsumption(type, chunk_rows, chunk_distinct_values, ValueBytes) * chunks

\* the row count the predicate statistics predict for a record
MatchRows(record) == IF record.condition = "Equals" THEN 1 ELSE 2

\* the work of one execution of the query, whatever its frequency
RecordSavedWorkOfOneQuery(record) == TableRows - MatchRows(record)

\* aggregate_node.cpp lines 371-374: the work an index saves for one record
RecordSavedWork(record) == (TableRows - MatchRows(record)) * record.query_frequency

\* the saved work that keeps the latest record of a column only
SavedWorkOfLatest(calls, ref) ==
  LET matching == {i \in DOMAIN calls : calls[i].column_ref = ref}
  IN IF matching = {} THEN 0
     ELSE RecordSavedWork(calls[CHOOSE i \in matching : \A k \in matching : k <= i])

\* aggregate_node.cpp lines 375-379 and 414-420: _saved_work of a column
\* after the hook has seen the calls, 0 for a column it has not seen
RECURSIVE SavedWorkOf(_, _)
SavedWorkOf(calls, ref) ==
  IF calls = <<>> THEN 0
  ELSE (IF Head(calls).column_ref = ref THEN RecordSavedWork(Head(calls)) ELSE 0)
       + SavedWorkOf(Tail(calls), ref)

\* aggregate_node.cpp lines 382-384: _propose_index_type
ProposedIndexType == "GroupKey"

\* IndexChoice{column_ref, exists} with its type, its evaluated memory cost
\* and its saved work
IndexChoice(ref, exists, type, memory_cost, saved_work) ==
  [column_ref |-> ref, exists |-> exists, type |-> type, memory_cost |-> memory_cost,
   saved_work |-> saved_work]

\* an inspection that keeps the records of the earlier pass in the buffer
KeptRecords(stale) == stale

\* index/base_index_evaluator.cpp line 75 (base_index_evaluator.cpp line
\* 65): _access_records.clear()
ClearedRecords(stale) == <<>>

\* a _setup that keeps the saved work of the earlier pass
KeptSavedWork(calls) == calls

\* aggregate_node.cpp line 364: _setup, _saved_work.clear()
ClearedSavedWork(calls) == <<>>

\* index/base_index_evaluator.cpp lines 29-32 and 75-100 (_setup and the
\* head of _inspect_query_cache); base_index_evaluator.cpp lines 23 and 65-78.
\* An opaque cache is left with a warning by the index evaluator and fails
\* the Assert of the legacy evaluator. evaluate_indices of the legacy
\* evaluator does not call _setup.
EvaluateBegin ==
  /\ pass_pc = "start"
  /\ access_records' = ClearedRecords(access_records)
  /\ processed' = IF evaluator = "index" THEN ClearedSavedWork(processed) ELSE processed
  /\ IF cache_kind # "gdfs"
     THEN /\ entry_index' = Len(cache)
          /\ IF evaluator = "legacy"
             THEN pass_pc' = "failed" /\ walk_pc' = "off"
             ELSE pass_pc' = "inspect" /\ walk_pc' = "returned"
          /\ UNCHANGED <<plan, query_frequency>>
     ELSE /\ pass_pc' = "inspect"
          /\ IF cache = <<>>
             THEN /\ walk_pc' = "returned"
                  /\ UNCHANGED <<plan, query_frequency, entry_index>>
             ELSE /\ entry_index' = 1
                  /\ plan' = cache[1].plan
                  /\ query_frequency' = cache[1].frequency
                  /\ walk_pc' = "ready"
  /\ UNCHANGED <<inspector, build, queue, walk_error, new_indexes>>
  /\ UNCHANGED <<evaluator, cache_kind, cache, existing, chunk_count, index_choices,
                 previous_choices, doubled, applyVars>>
  /\ UNCHANGED selectorVars

\* index/base_index_evaluator.cpp lines 102-106: the walker has returned,
\* the iteration moves on to the next cache entry
InspectNextEntry ==
  /\ pass_pc = "inspect"
  /\ walk_pc = "returned"
  /\ entry_index < Len(cache)
  /\ entry_index' = entry_index + 1
  /\ plan' = cache[entry_index + 1].plan
  /\ query_frequency' = cache[entry_index + 1].frequency
  /\ walk_pc' = "ready"
  /\ UNCHANGED <<inspector, build, queue, access_records, walk_error, new_indexes,
                 processed>>
  /\ UNCHANGED <<evaluator, cache_kind, cache, existing, chunk_count, index_choices,
                 previous_choices, doubled, pass_pc, applyVars>>
  /\ UNCHANGED selectorVars

\* the candidate set when the columns of the listed indexes stay in it
UnerasedIndexes(candidates, listed_refs) == candidates

\* index/base_index_evaluator.cpp line 210: _new_indexes.erase(...) for
\* every listed index
ErasedIndexes(candidates, listed_refs) == candidates \ listed_refs

\* index/base_index_evaluator.cpp lines 38-54 with _add_existing_indexes and
\* _add_new_indexes (lines 202-220): the existing indexes in catalog order,
\* then the remaining candidates in set order, each with its memory cost and
\* saved work; the choices are the input of the selector
EvaluateChoices ==
  /\ pass_pc = "inspect"
  /\ walk_pc = "aggregated"
  /\ LET listed == ListedIndexes(evaluator, existing)
         existing_refs == {listed[i].column_ref : i \in DOMAIN listed}
         remaining == SortedRefs(ErasedIndexes(new_indexes, existing_refs))
         existing_choices ==
           [i \in DOMAIN listed |->
              IndexChoice(listed[i].column_ref, TRUE, listed[i].type,
                          ExistingMemoryCost(existing, listed[i].column_ref, listed[i].type,
                                             chunk_count),
                          SavedWorkOf(processed, listed[i].column_ref))]
         new_choices ==
           [i \in DOMAIN remaining |->
              IndexChoice(remaining[i], FALSE, ProposedIndexType,
                          PredictMemoryCost(remaining[i], ProposedIndexType, chunk_count),
                          SavedWorkOf(processed, remaining[i]))]
     IN /\ new_indexes' = ErasedIndexes(new_indexes, existing_refs)
        /\ index_choices' = existing_choices \o new_choices
        /\ choices' = choices \o
                       [i \in DOMAIN index_choices' |->
                          [desirability |-> index_choices'[i].saved_work,
                           exists |-> index_choices'[i].exists,
                           memory_cost |-> index_choices'[i].memory_cost]]
  /\ pass_pc' = "evaluated"
  /\ pc' = "idle"
  /\ UNCHANGED <<plan, query_frequency, inspector, build, queue, access_records, walk_pc,
                 walk_error, processed>>
  /\ UNCHANGED <<evaluator, cache_kind, cache, entry_index, existing, chunk_count,
                 previous_choices, doubled, applyVars>>
  /\ UNCHANGED <<memory_budget, evaluations, memory_consumption, best_index, worst_index,
                 operations, pass, sort_memo, previous_operations>>

\* a tuning pass is about to start on a plan cache and a catalog
PassInit ==
  /\ evaluator \in {"index", "legacy"}
  /\ inspector = IF evaluator = "index" THEN "lqp" ELSE "operator"
  /\ cache_kind \in {"gdfs", "opaque"}
  /\ \E n \in 0 .. MaxEntries :
       cache \in [1 .. n -> [plan : IF evaluator = "index" THEN CachedLqpPlans
                                    ELSE CachedPqpPlans,
                             frequency : 1 .. MaxFrequency]]
  /\ chunk_count \in 1 .. MaxChunks
  /\ existing \in Catalogs(evaluator, chunk_count)
  /\ memory_budget \in 0 .. MaxBudget
  /\ entry_index = 0
  /\ index_choices = <<>>
  /\ previous_choices = <<>>
  /\ doubled = {}
  /\ ApplyOff
  /\ PipelineOff
  /\ pass_pc = "start"
  /\ plan = <<>>
  /\ query_frequency = 0
  /\ build = "release"
  /\ queue = <<>>
  /\ access_records = <<>>
  /\ walk_pc = "off"
  /\ walk_error = "none"
  /\ new_indexes = {}
  /\ processed = <<>>
  /\ choices = <<>>
  /\ evaluations = <<>>
  /\ memory_consumption = 0
  /\ best_index = 0
  /\ worst_index = 1
  /\ operations = <<>>
  /\ pc = "off"
  /\ pass = 1
  /\ sort_memo = {}
  /\ previous_operations = <<>>

\* the saved work of an evaluated choice is never negative, so the selector
\* never takes its DeleteWorst branch in a pass
PassNext ==
  \/ EvaluateBegin
  \/ InspectCall
  \/ InspectLqpNode
  \/ InspectOperatorNode
  \/ InspectReturn
  \/ InspectNextEntry
  \/ AggregateAccessRecords
  \/ EvaluateChoices
  \/ SelectBegin
  \/ KeepBest
  \/ InstallBest
  \/ SelectReturn

PassSpec == PassInit /\ [][PassNext]_vars

(* --------------------------- repeated passes --------------------------- *)

\* the columns a walk of the logical plan yields a record for
PlanRefs(p) ==
  {LqpRecord(p, p[i], 1).column_ref : i \in {k \in DOMAIN p : LqpIndexable(p, p[k])}}

\* the cache after the workload has doubled the frequency of every entry
\* that yields a record for a column of D
DoubledCache(entries, D) ==
  [i \in DOMAIN entries |->
     IF PlanRefs(entries[i].plan) \cap D # {}
     THEN [entries[i] EXCEPT !.frequency = 2 * @]
     ELSE entries[i]]

\* the caller keeps the choices of the pass and calls evaluate() again with
\* an empty vector, on the same catalog; the workload in between has either
\* not changed or has doubled the queries on one column. The members of the
\* evaluator (_access_records, _new_indexes, _choices, _saved_work) are as
\* the earlier pass left them.
EvaluateAgain ==
  /\ pass_pc = "evaluated"
  /\ pass < MaxPasses
  /\ pass' = pass + 1
  /\ previous_choices' = index_choices
  /\ \E D \in {{}} \cup {{ref} : ref \in CatalogRefs(evaluator)} :
       /\ doubled' = D
       /\ cache' = DoubledCache(cache, D)
  /\ choices' = <<>>
  /\ entry_index' = 0
  /\ pass_pc' = "start"
  /\ walk_pc' = "off"
  /\ UNCHANGED <<plan, query_frequency, inspector, build, queue, access_records,
                 walk_error, new_indexes, processed>>
  /\ UNCHANGED <<evaluator, cache_kind, existing, chunk_count, index_choices, applyVars>>
  /\ UNCHANGED <<memory_budget, evaluations, memory_consumption, best_index, worst_index,
                 operations, pc, sort_memo, previous_operations>>

\* passes of the index evaluator on a GDFS cache; the selector does not run
RepassInit ==
  /\ PassInit
  /\ evaluator = "index"
  /\ cache_kind = "gdfs"
  /\ memory_budget = 0

RepassNext ==
  \/ EvaluateBegin
  \/ InspectCall
  \/ InspectLqpNode
  \/ InspectReturn
  \/ InspectNextEntry
  \/ AggregateAccessRecords
  \/ EvaluateChoices
  \/ EvaluateAgain

RepassSpec == RepassInit /\ [][RepassNext]_vars

(* ----------------------------- apply phase ----------------------------- *)

\* the operation lists a selector may hand to the apply loop: creates and
\* drops for different choices, in any order
OperationBatches ==
  {b \in UNION {[1 .. n -> [choice : 1 .. MaxChoices, create : BOOLEAN]] :
                n \in 0 .. MaxChoices} :
     \A i, k \in DOMAIN b : i # k => b[i].choice # b[k].choice}

\* the catalog can carry out the operation: it creates an index on a column
\* without one and drops an index from a column that has one
CatalogAccepts(catalog, operation) ==
  IF operation.create THEN ColumnOf(operation.choice) \notin catalog
  ELSE ColumnOf(operation.choice) \in catalog

\* catalog.create_index / catalog.drop_index carried out
CatalogAfter(catalog, operation) ==
  IF operation.create THEN catalog \cup {ColumnOf(operation.choice)}
  ELSE catalog \ {ColumnOf(operation.choice)}

\* a loop that gives up the batch at the first failure
PositionPastBatch(index, batch, ok) == IF ok THEN index + 1 ELSE Len(batch) + 1

\* the apply loop moves on to the next operation, failed or not
PositionAfter(index, batch, ok) == index + 1

\* the selector has returned its operations and the apply loop starts
ApplyInit ==
  /\ operations \in OperationBatches
  /\ live \in SUBSET {ColumnOf(i) : i \in 1 .. MaxChoices}
  /\ apply_pc = "applying"
  /\ apply_index = 1
  /\ attempted = <<>>
  /\ failures = <<>>
  /\ PipelineOff
  /\ choices = <<>>
  /\ memory_budget = 0
  /\ evaluations = <<>>
  /\ memory_consumption = 0
  /\ best_index = 0
  /\ worst_index = 1
  /\ pc = "off"
  /\ pass = 1
  /\ sort_memo = {}
  /\ previous_operations = <<>>
  /\ WalkerOff
  /\ evaluator = "none"
  /\ cache_kind = "gdfs"
  /\ cache = <<>>
  /\ entry_index = 0
  /\ existing = <<>>
  /\ chunk_count = 1
  /\ index_choices = <<>>
  /\ previous_choices = <<>>
  /\ doubled = {}
  /\ pass_pc = "off"

\* one turn of the apply loop: the catalog carries the operation out or
\* rejects it (also when it could carry it out: the column may have been
\* dropped concurrently); a rejection is logged and the loop goes on
ApplyOperation ==
  /\ apply_pc = "applying"
  /\ apply_index <= Len(operations)
  /\ LET operation == operations[apply_index]
     IN \E ok \in {FALSE, CatalogAccepts(live, operation)} :
          /\ attempted' = Append(attempted, [operation |-> operation, ok |-> ok])
          /\ live' = IF ok THEN CatalogAfter(live, operation) ELSE live
          /\ failures' = IF ok THEN failures ELSE Append(failures, operation)
          /\ apply_index' = PositionAfter(apply_index, operations, ok)
  /\ UNCHANGED apply_pc
  /\ UNCHANGED <<evaluator, cache_kind, cache, entry_index, existing, chunk_count,
                 index_choices, previous_choices, doubled, pass_pc>>
  /\ UNCHANGED pipelineVars
  /\ UNCHANGED selectorVars
  /\ UNCHANGED walkerVars

\* the loop has passed the last operation
ApplyReturn ==
  /\ apply_pc = "applying"
  /\ apply_index > Len(operations)
  /\ apply_pc' = "done"
  /\ UNCHANGED <<apply_index, attempted, failures, live>>
  /\ UNCHANGED <<evaluator, cache_kind, cache, entry_index, existing, chunk_count,
                 index_choices, previous_choices, doubled, pass_pc>>
  /\ UNCHANGED pipelineVars
  /\ UNCHANGED selectorVars
  /\ UNCHANGED walkerVars

ApplyNext ==
  \/ ApplyOperation
  \/ ApplyReturn

ApplySpec == ApplyInit /\ [][ApplyNext]_vars

(* ------------------------- accept and reject --------------------------- *)

\* IndexChoice::is_currently_chosen: the index of the choice exists
IsCurrentlyChosen(choice) == choice.exists

\* the operation that leaves the system as it is
NullOperation == [kind |-> "null", column |-> 0]

\* IndexChoice::_accept_operation: the operation that creates the index
AcceptOperation(choice) == [kind |-> "create", column |-> choice.column]

\* IndexChoice::_reject_operation: the operation that drops the index
RejectOperation(choice) == [kind |-> "drop", column |-> choice.column]

\* an accept() that does not look at the current state
AcceptUnchecked(choice) == AcceptOperation(choice)

\* TuningChoice::accept (system_statistics.cpp lines 120-127)
Accept(choice) ==
  IF ~IsCurrentlyChosen(choice) THEN AcceptOperation(choice) ELSE NullOperation

\* TuningChoice::reject (system_statistics.cpp lines 129-136)
Reject(choice) ==
  IF IsCurrentlyChosen(choice) THEN RejectOperation(choice) ELSE NullOperation

\* the system state after the operation has been executed
ExecuteOperation(catalog, operation) ==
  IF operation.kind = "create" THEN catalog \cup {operation.column}
  ELSE IF operation.kind = "drop" THEN catalog \ {operation.column}
  ELSE catalog

\* the choice an evaluator makes for a column of the catalog
ChoiceFor(catalog, column) == [column |-> column, exists |-> column \in catalog]

\* the call of accept() or reject() with what it returned and what the
\* execution of the returned operation did to the system
ChoiceCall(call, choice, operation, catalog) ==
  [call |-> call, choice |-> choice, operation |-> operation, before |-> catalog,
   after |-> ExecuteOperation(catalog, operation)]

\* a selector is about to accept and reject choices on some catalog
ChoiceInit ==
  /\ live \in SUBSET (1 .. MaxChoices)
  /\ apply_pc = "choosing"
  /\ apply_index = 0
  /\ attempted = <<>>
  /\ failures = <<>>
  /\ PipelineOff
  /\ SelectorOff
  /\ WalkerOff
  /\ evaluator = "none"
  /\ cache_kind = "gdfs"
  /\ cache = <<>>
  /\ entry_index = 0
  /\ existing = <<>>
  /\ chunk_count = 1
  /\ index_choices = <<>>
  /\ previous_choices = <<>>
  /\ doubled = {}
  /\ pass_pc = "off"

\* choice.accept() is called and the returned operation is executed
AcceptChoice ==
  /\ apply_pc = "choosing"
  /\ Len(attempted) < MaxCalls
  /\ \E column \in 1 .. MaxChoices :
       LET choice == ChoiceFor(live, column)
       IN /\ attempted' = Append(attempted, ChoiceCall("accept", choice, Accept(choice), live))
          /\ live' = ExecuteOperation(live, Accept(choice))
  /\ UNCHANGED <<apply_pc, apply_index, failures>>
  /\ UNCHANGED <<evaluator, cache_kind, cache, entry_index, existing, chunk_count,
                 index_choices, previous_choices, doubled, pass_pc>>
  /\ UNCHANGED pipelineVars
  /\ UNCHANGED selectorVars
  /\ UNCHANGED walkerVars

\* choice.reject() is called and the returned operation is executed
RejectChoice ==
  /\ apply_pc = "choosing"
  /\ Len(attempted) < MaxCalls
  /\ \E column \in 1 .. MaxChoices :
       LET choice == ChoiceFor(live, column)
       IN /\ attempted' = Append(attempted, ChoiceCall("reject", choice, Reject(choice), live))
          /\ live' = ExecuteOperation(live, Reject(choice))
  /\ UNCHANGED <<apply_pc, apply_index, failures>>
  /\ UNCHANGED <<evaluator, cache_kind, cache, entry_index, existing, chunk_count,
                 index_choices, previous_choices, doubled, pass_pc>>
  /\ UNCHANGED pipelineVars
  /\ UNCHANGED selectorVars
  /\ UNCHANGED walkerVars

ChoiceNext ==
  \/ AcceptChoice
  \/ RejectChoice

ChoiceSpec == ChoiceInit /\ [][ChoiceNext]_vars

(* ------------------------------ C11 ------------------------------------ *)

\* two choices of the sorted vector the sort could not tell apart and that
\* carry the same memory cost
Tied(a, b) == a.desirability = b.desirability /\ a.memory_cost = b.memory_cost

\* C11: choices with identical saved work and identical memory cost are
\* processed in their input order: in the sorted vector the selector walks,
\* the one that came first in the input stands first.
TiedChoicesInInputOrder ==
  pc = "loop" =>
    \A i, j \in DOMAIN evaluations :
      (i < j /\ Tied(evaluations[i], evaluations[j])) => evaluations[i].id < evaluations[j].id

(* ------------------------------ C12 ------------------------------------ *)

\* C12: a pass run again on the same snapshot returns the operation list the
\* previous pass returned; in particular nothing the earlier call planned is
\* carried over into the result of the later call.
SameSnapshotSameOperations ==
  (Returned /\ pass > 1) => operations = previous_operations

SameSnapshotSameOperationsWitness ==
  Returned /\ pass > 1 /\ previous_operations # <<>> /\ operations = previous_operations

(* ------------------------------ C13 ------------------------------------ *)

\* the plan cache has no entries or cannot be iterated
WorkloadUnavailable == cache = <<>> \/ cache_kind = "opaque"

\* C13: when the plan cache is empty or opaque the pass does not fail and
\* its selector returns no operations; with an empty cache and no existing
\* index the choice list is empty as well.
WorkloadUnavailableHarmless ==
  (pass_pc # "off" /\ WorkloadUnavailable) =>
    /\ pass_pc # "failed"
    /\ walk_pc # "failed"
    /\ Returned => operations = <<>>
    /\ (pass_pc = "evaluated" /\ cache = <<>> /\ existing = <<>>) => choices = <<>>

(* ------------------------------ C14 ------------------------------------ *)

\* the predicates (logical) or scans (physical) of the plan
ScanNodes == {i \in DOMAIN plan : plan[i].kind \in {"Predicate", "TableScan"}}

\* the number of edges of the plan that lead to node i
InDegree(i) ==
  Cardinality({j \in DOMAIN plan : plan[j].left = i})
  + Cardinality({j \in DOMAIN plan : plan[j].right = i})

\* the records the walk has appended behind what the buffer held before
AppendedRecords == SelectSeq(access_records, LAMBDA r : r # EarlierRecord)

\* the plan of a query with one literal predicate on a stored table column:
\* a tree with a single predicate that reads its table directly
SingleLiteralPredicate ==
  /\ Cardinality(ScanNodes) = 1
  /\ \A i \in DOMAIN plan : InDegree(i) <= 1
  /\ \A s \in ScanNodes :
       /\ plan[s].literal
       /\ plan[s].left # 0
       /\ plan[plan[s].left].kind \in {"StoredTable", "GetTable"}
       /\ inspector = "lqp" => plan[s].origin = plan[s].left

\* C14: for a query with one literal predicate on a stored table column the
\* walk over the logical plan and the walk over the physical plan both end
\* without an error and append exactly one record, which names the table
\* below the predicate, the predicate's column and condition, and the
\* frequency of the query.
SinglePredicateOneRecord ==
  (inspector \in {"lqp", "pqp"} /\ SingleLiteralPredicate) =>
    /\ walk_pc # "failed"
    /\ walk_pc = "returned" =>
         /\ Len(AppendedRecords) = 1
         /\ \A s \in ScanNodes :
              /\ AppendedRecords[1].column_ref.table_name = plan[plan[s].left].table_name
              /\ AppendedRecords[1].column_ref.column_id = plan[s].column_id
              /\ AppendedRecords[1].condition = plan[s].condition
              /\ AppendedRecords[1].query_frequency = query_frequency

SinglePredicateOneRecordWitness ==
  /\ inspector = "lqp"
  /\ SingleLiteralPredicate
  /\ walk_pc = "returned"
  /\ Len(plan) = 3
  /\ query_frequency = 2
  /\ Len(access_records) = 2

(* ------------------------------ C15 ------------------------------------ *)

\* the inputs of the nodes in S
InputsOf(S) ==
  {plan[i].left : i \in S} \cup {plan[i].right : i \in S}

\* the nodes reachable from the nodes in S along at most k edges
RECURSIVE ReachableWithin(_, _)
ReachableWithin(S, k) ==
  IF k = 0 THEN S ELSE ReachableWithin(S \cup (InputsOf(S) \ {0}), k - 1)

\* the nodes reachable from the root of the plan
ReachableNodes == ReachableWithin({1}, Len(plan))

\* the number of records the walk appended for the scan at node i
RecordsFor(i) ==
  Cardinality({k \in DOMAIN AppendedRecords :
                 AppendedRecords[k].column_ref.column_id = plan[i].column_id})

\* the scans of a physical plan that read a GetTable directly
ScansOverGetTable ==
  {i \in ScanNodes : plan[i].left # 0 /\ plan[plan[i].left].kind = "GetTable"}

\* C15: when the physical walker has returned from a tree-shaped plan whose
\* scans all compare with a literal, every TableScan reachable from the root
\* whose left input is a GetTable has exactly one record, also a TableScan
\* that lies below another TableScan.
EveryReachableScanRecorded ==
  (/\ inspector = "pqp"
   /\ walk_pc = "returned"
   /\ \A i \in DOMAIN plan : InDegree(i) <= 1
   /\ \A i \in ScanNodes : plan[i].literal)
  => \A i \in ScansOverGetTable \cap ReachableNodes : RecordsFor(i) = 1

(* ------------------------------ C16 ------------------------------------ *)

\* the scans of a physical plan whose left input is a Validate over a GetTable
ScansOverValidate ==
  {i \in ScanNodes :
     /\ plan[i].left # 0
     /\ plan[plan[i].left].kind = "Validate"
     /\ plan[plan[i].left].left # 0
     /\ plan[plan[plan[i].left].left].kind = "GetTable"}

\* the plan is a single TableScan, comparing with a literal, over a Validate
\* over a GetTable
ValidatedScanPlan ==
  /\ Len(plan) = 3
  /\ ScansOverValidate = {1}
  /\ plan[1].literal

\* C16: a physical plan whose TableScan reads an MVCC Validate over a
\* GetTable is rejected: the walker does not return from it as from a good
\* plan, and no record is appended for that scan.
ValidatedScanRejected ==
  (inspector \in {"pqp", "operator"} /\ ValidatedScanPlan) =>
    /\ walk_pc # "returned"
    /\ RecordsFor(1) = 0

(* ------------------------------ C17 ------------------------------------ *)

\* the predicates and scans the walker would record if they compared with a
\* literal, but whose right side is a column or a placeholder
NonLiteralScans ==
  {i \in ScanNodes :
     /\ ~plan[i].literal
     /\ \/ inspector = "lqp" /\ plan[i].origin # 0
                            /\ plan[plan[i].origin].kind = "StoredTable"
        \/ inspector = "pqp" /\ plan[plan[i].left].kind = "GetTable"}

\* C17: a predicate or scan whose right side is not a literal gets no record
\* and raises no error.
NonLiteralSkipped ==
  inspector \in {"lqp", "pqp"} =>
    /\ walk_error # "bad_get"
    /\ \A i \in NonLiteralScans : RecordsFor(i) = 0

(* ------------------------------ C18 ------------------------------------ *)

\* the literal predicates and scans the walker records
IndexableScans ==
  {i \in ScanNodes :
     /\ plan[i].literal
     /\ \/ inspector = "lqp" /\ plan[i].origin # 0
                            /\ plan[plan[i].origin].kind = "StoredTable"
        \/ inspector = "pqp" /\ plan[plan[i].left].kind = "GetTable"}

\* C18: when the walker has returned, a predicate or scan that is reachable
\* from the root along several paths has one record, not one per path.
SharedScanRecordedOnce ==
  (inspector \in {"lqp", "pqp"} /\ walk_pc = "returned") =>
    \A i \in IndexableScans \cap ReachableNodes : InDegree(i) > 1 => RecordsFor(i) = 1

(* ------------------------------ C19 ------------------------------------ *)

\* the plan has a predicate whose column originates in a stored table
\* (logical form) or a scan whose left input is a GetTable (physical form)
HasScanOfStoredTable ==
  \E i \in DOMAIN plan :
    \/ /\ plan[i].kind = "Predicate"
       /\ plan[i].origin # 0
       /\ plan[plan[i].origin].kind = "StoredTable"
    \/ /\ plan[i].kind = "TableScan"
       /\ plan[plan[i].left].kind = "GetTable"

\* C19: on a plan without a predicate rooted in a stored table and without a
\* scan over a GetTable no step of the walker changes the record buffer.
NoScanNoRecord ==
  [][(inspector \in {"lqp", "pqp"} /\ ~HasScanOfStoredTable)
       => access_records' = access_records]_vars

NoScanNoRecordWitness ==
  /\ inspector = "lqp"
  /\ ~HasScanOfStoredTable
  /\ \E i \in DOMAIN plan : plan[i].kind = "Predicate" /\ plan[i].origin # 0
  /\ walk_pc = "returned"
  /\ access_records = <<EarlierRecord>>

(* ------------------------------ C20 ------------------------------------ *)

\* C20: after the aggregation the candidate set is exactly the set of the
\* column references in the record buffer, and the hook has been called once
\* per record in the order of the buffer.
AggregationExact ==
  walk_pc = "aggregated" =>
    /\ \A c \in new_indexes : \E k \in DOMAIN access_records : access_records[k].column_ref = c
    /\ \A k \in DOMAIN access_records : access_records[k].column_ref \in new_indexes
    /\ Len(processed) = Len(access_records)
    /\ \A k \in DOMAIN access_records : processed[k] = access_records[k]

AggregationExactWitness ==
  /\ walk_pc = "aggregated"
  /\ Len(access_records) = 3
  /\ Cardinality(new_indexes) = 2

(* ------------------------------ C21 ------------------------------------ *)

\* the existing choices of the pass that stand for the catalog index at position i
ChoicesOfIndex(i) ==
  {j \in DOMAIN index_choices :
     /\ index_choices[j].exists
     /\ index_choices[j].column_ref = existing[i].column_ref
     /\ index_choices[j].type = existing[i].type}

\* C21: after the evaluation every index of the catalog appears exactly once
\* as an existing choice with the type of the catalog, and every existing
\* choice stands for an index of the catalog
CatalogListedOnce ==
  pass_pc = "evaluated" =>
    /\ \A i \in DOMAIN existing : Cardinality(ChoicesOfIndex(i)) = 1
    /\ \A j \in DOMAIN index_choices :
         index_choices[j].exists => \E i \in DOMAIN existing : j \in ChoicesOfIndex(i)

(* ------------------------------ C22 ------------------------------------ *)

\* the rows a scan for the record does not have to read, times its frequency
UnscannedWork(record) == (TableRows - MatchRows(record)) * record.query_frequency

\* the total unscanned work of the first n records of the pass on a column
RECURSIVE WorkOfRecords(_, _)
WorkOfRecords(ref, n) ==
  IF n = 0 THEN 0
  ELSE WorkOfRecords(ref, n - 1)
       + (IF access_records[n].column_ref = ref THEN UnscannedWork(access_records[n]) ELSE 0)

\* C22: the saved work of every choice is the sum over the access records of
\* the pass on its column of (row count - matching rows) * query frequency,
\* and 0 for a choice whose column has no record
SavedWorkIsRecordSum ==
  pass_pc = "evaluated" =>
    \A j \in DOMAIN index_choices :
      /\ index_choices[j].saved_work =
           WorkOfRecords(index_choices[j].column_ref, Len(access_records))
      /\ (\A n \in DOMAIN access_records :
            access_records[n].column_ref # index_choices[j].column_ref)
         => index_choices[j].saved_work = 0

\* a pass with two records on the column of one choice and an existing index
\* without any record
SavedWorkIsRecordSumWitness ==
  /\ pass_pc = "evaluated"
  /\ \E j \in DOMAIN index_choices :
       Cardinality({n \in DOMAIN access_records :
                      access_records[n].column_ref = index_choices[j].column_ref}) = 2
  /\ \E j \in DOMAIN index_choices :
       /\ index_choices[j].exists
       /\ \A n \in DOMAIN access_records :
            access_records[n].column_ref # index_choices[j].column_ref

(* ------------------------------ C23 ------------------------------------ *)

\* the saved work the choices list for a column (one value per choice on it)
SavedWorkIn(list, ref) ==
  {list[j].saved_work : j \in {k \in DOMAIN list : list[k].column_ref = ref}}

\* C23: when the frequency of every cache entry that yields a record for a
\* column is doubled and nothing else changes, the saved work of the column
\* is exactly twice what it was in the pass before
DoubledFrequencyDoublesSavedWork ==
  (pass_pc = "evaluated" /\ pass > 1) =>
    \A ref \in doubled :
      SavedWorkIn(index_choices, ref) = {2 * w : w \in SavedWorkIn(previous_choices, ref)}

\* a second pass after the queries on a column with saved work were doubled
DoubledFrequencyWitness ==
  /\ pass_pc = "evaluated"
  /\ pass > 1
  /\ \E ref \in doubled : \E w \in SavedWorkIn(previous_choices, ref) : w > 0
  /\ \E j \in DOMAIN index_choices :
       index_choices[j].column_ref \notin doubled /\ index_choices[j].saved_work > 0

(* ------------------------------ C24 ------------------------------------ *)

\* C24: a second evaluate() over the same cache and the same catalog hands
\* back the same choices with the same saved work as the first; nothing of
\* the earlier pass adds to the later one
SamePassSameChoices ==
  (pass_pc = "evaluated" /\ pass > 1 /\ doubled = {}) =>
    /\ index_choices = previous_choices
    /\ Len(choices) = Len(index_choices)
    /\ \A j \in DOMAIN index_choices :
         index_choices[j].saved_work =
           WorkOfRecords(index_choices[j].column_ref, Len(access_records))

\* a second pass over an unchanged cache with a candidate index and an
\* existing index that both save work
SamePassSameChoicesWitness ==
  /\ pass_pc = "evaluated"
  /\ pass > 1
  /\ doubled = {}
  /\ \E j \in DOMAIN index_choices :
       index_choices[j].exists /\ index_choices[j].saved_work > 0
  /\ \E j \in DOMAIN index_choices :
       ~index_choices[j].exists /\ index_choices[j].saved_work > 0

(* ------------------------------ C25 ------------------------------------ *)

\* the distinct values of one chunk: the even share, and 1 when the column
\* has fewer distinct values than the table has chunks
ChunkDistinctAtLeastOne(ref) ==
  IF DistinctCount(ref) < chunk_count THEN 1 ELSE DistinctCount(ref) \div chunk_count

\* C25: the predicted memory of a new index is the per-chunk prediction for
\* row_count / chunk_count rows and distinct_count / chunk_count distinct
\* values (1, never 0, when distinct_count is below chunk_count), times
\* chunk_count
PredictionClampsDistinct ==
  pass_pc = "evaluated" =>
    \A j \in DOMAIN index_choices :
      ~index_choices[j].exists =>
        index_choices[j].memory_cost =
          PredictMemoryConsumption(index_choices[j].type, TableRows \div chunk_count,
                                   ChunkDistinctAtLeastOne(index_choices[j].column_ref),
                                   ValueBytes) * chunk_count

(* ------------------------------ C26 ------------------------------------ *)

\* the chunks of the table that hold an index of the type on the column
ChunksHolding(ref, type) ==
  {c \in 1 .. chunk_count :
     \E i \in DOMAIN existing :
       /\ existing[i].column_ref = ref
       /\ existing[i].type = type
       /\ c \in existing[i].chunks}

\* C26: no choice has a negative memory cost, and the memory cost of an
\* existing choice is the memory its index takes in the chunks that hold it;
\* the chunks without the index add nothing
ExistingCostIsChunkSum ==
  pass_pc = "evaluated" =>
    \A j \in DOMAIN index_choices :
      /\ index_choices[j].memory_cost >= 0
      /\ index_choices[j].exists =>
           index_choices[j].memory_cost =
             ChunkIndexMemory(index_choices[j].type)
             * Cardinality(ChunksHolding(index_choices[j].column_ref, index_choices[j].type))

\* an evaluated existing index that one of the two chunks does not hold
ExistingCostIsChunkSumWitness ==
  /\ pass_pc = "evaluated"
  /\ chunk_count = 2
  /\ \E j \in DOMAIN index_choices :
       /\ index_choices[j].exists
       /\ index_choices[j].memory_cost > 0
       /\ Cardinality(ChunksHolding(index_choices[j].column_ref, index_choices[j].type)) = 1

(* ------------------------------ C27 ------------------------------------ *)

\* the operations among the first n calls that the catalog rejected
RECURSIVE RejectedAmong(_)
RejectedAmong(n) ==
  IF n = 0 THEN <<>>
  ELSE RejectedAmong(n - 1)
       \o (IF attempted[n].ok THEN <<>> ELSE <<attempted[n].operation>>)

\* C27: the apply loop attempts the operations of the batch one by one in
\* their order, records every rejection of the catalog, and has attempted
\* every operation when it ends, whatever failed on the way
FailureNeverStopsBatch ==
  /\ Len(attempted) <= Len(operations)
  /\ \A i \in DOMAIN attempted : attempted[i].operation = operations[i]
  /\ failures = RejectedAmong(Len(attempted))
  /\ apply_pc = "done" => Len(attempted) = Len(operations)

\* a finished batch whose first operation was rejected and whose last
\* operation was carried out
FailureNeverStopsBatchWitness ==
  /\ apply_pc = "done"
  /\ Len(operations) >= 2
  /\ ~attempted[1].ok
  /\ attempted[Len(operations)].ok

(* ------------------------------ C28 ------------------------------------ *)

\* the calls of accept() and reject() made so far
ChoiceCalls == {attempted[i] : i \in DOMAIN attempted}

\* C28: accept() returns the create operation of the choice iff the choice
\* is not currently chosen and a NullOperation otherwise, reject() returns
\* the drop operation iff it is currently chosen and a NullOperation
\* otherwise; accepting a present choice and rejecting an absent one leave
\* the system state as it was
AcceptRejectGuarded ==
  apply_pc = "choosing" =>
    \A c \in ChoiceCalls :
      /\ c.call = "accept" =>
           /\ (c.operation.kind = "create" /\ c.operation.column = c.choice.column)
                <=> (c.choice.column \notin c.before)
           /\ (c.choice.column \in c.before) =>
                (c.operation.kind = "null" /\ c.after = c.before)
      /\ c.call = "reject" =>
           /\ (c.operation.kind = "drop" /\ c.operation.column = c.choice.column)
                <=> (c.choice.column \in c.before)
           /\ (c.choice.column \notin c.before) =>
                (c.operation.kind = "null" /\ c.after = c.before)

\* a present choice was accepted, an absent one rejected, and a choice was
\* created by accept() and dropped again by reject()
AcceptRejectGuardedWitness ==
  /\ apply_pc = "choosing"
  /\ \E c \in ChoiceCalls : c.call = "accept" /\ c.choice.column \in c.before
  /\ \E c \in ChoiceCalls : c.call = "reject" /\ c.choice.column \notin c.before
  /\ \E c \in ChoiceCalls : c.operation.kind # "null" /\ c.after # c.before

(* ------------------------------ C29 ------------------------------------ *)

\* the positions between the two iterators that the main loop has not passed
Unvisited == best_index - worst_index + 1

\* C29: every iteration of the main loop advances the worst iterator or
\* moves the best iterator back by one, the sacrifice walk never takes the
\* worst iterator past the best one, and every iteration leaves fewer
\* positions between the iterators: for n choices the loop ends after at
\* most n iterations, that is at most 2 * n iterator moves
EveryIterationMovesAnIterator ==
  [][(pc = "loop" /\ pc' = "loop") =>
       /\ \/ (worst_index' > worst_index /\ best_index' = best_index)
          \/ (best_index' = best_index - 1 /\ worst_index' >= worst_index)
       /\ worst_index' <= best_index + 1
       /\ Unvisited' < Unvisited
       /\ Unvisited' >= 0
       /\ (worst_index' - 1) + (Len(evaluations) - best_index') <= 2 * Len(evaluations)]_vars

\* a call on MaxChoices choices has returned after both iterators have moved
\* and a swap has taken the worst iterator forward
EveryIterationMovesAnIteratorWitness ==
  /\ pc = "done"
  /\ Len(evaluations) = MaxChoices
  /\ worst_index > 2
  /\ best_index < MaxChoices
  /\ \E i \in DOMAIN operations : operations[i].create

(* ------------------------------ C30 ------------------------------------ *)

\* C30: in the returned list every drop is planned for a choice that exists,
\* every create for a choice that does not exist, and no input choice is the
\* subject of more than one operation
OperationsWellFormed ==
  pc = "done" =>
    /\ \A i \in DOMAIN operations :
         operations[i].create = ~choices[operations[i].choice].exists
    /\ \A k \in DOMAIN choices : Cardinality(OperationsOn(k)) <= 1

\* a returned list with a drop, a create and an existing choice and a
\* candidate that are not touched
OperationsWellFormedWitness ==
  /\ pc = "done"
  /\ \E i \in DOMAIN operations : operations[i].create
  /\ \E i \in DOMAIN operations : ~operations[i].create
  /\ \E k \in DOMAIN choices : OperationsOn(k) = {}

(* ------------------------------ C31 ------------------------------------ *)

\* the tracked memory is the memory of the existing choices of the input,
\* less the dropped ones, plus the created ones
MemoryTracked ==
  pc \in {"loop", "done"} =>
    memory_consumption = SumOver(LiveBefore, CostOfChoice)
                         - SumOver(DroppedChoices, CostOfChoice)
                         + SumOver(CreatedChoices, CostOfChoice)

\* the positions the worst iterator passes in the step
PassedByWorst == worst_index .. (worst_index' - 1)

\* an iteration plans nothing for a non-existing choice the worst iterator
\* passes, and an iteration that only passes non-existing choices leaves the
\* operations and the tracked memory as they are
PassOverChangesNothing ==
  (pc = "loop" /\ pc' = "loop") =>
    /\ \A k \in PassedByWorst :
         ~evaluations[k].exists =>
           \A i \in DOMAIN operations' :
             operations'[i].choice = evaluations[k].id => i \in DOMAIN operations
    /\ (best_index' = best_index /\ \A k \in PassedByWorst : ~evaluations[k].exists)
         => (operations' = operations /\ memory_consumption' = memory_consumption)

\* C31: at every point of the main loop the tracked memory_consumption is
\* the sum of the memory_cost of the existing choices of the input, minus
\* the cost of every dropped choice, plus the cost of every created choice;
\* passing over a non-existing choice changes neither the operations nor
\* the tracked memory
MemoryAccounting == []MemoryTracked /\ [][PassOverChangesNothing]_vars

\* a returned call that dropped an index, created one and passed a candidate
\* it did not create
MemoryAccountingWitness ==
  /\ pc = "done"
  /\ DroppedChoices # {}
  /\ CreatedChoices # {}
  /\ \E k \in DOMAIN choices : ~choices[k].exists /\ k \notin CreatedChoices
  /\ memory_consumption > 0

(* ------------------------------ C32 ------------------------------------ *)

\* the iteration considers the candidate at the best iterator: the choice
\* does not exist and the iterator moves on from it
ConsidersBestCandidate ==
  /\ pc = "loop"
  /\ pc' = "loop"
  /\ best_index >= worst_index
  /\ best_index' = best_index - 1
  /\ ~evaluations[best_index].exists

\* the candidate at the best iterator fits into the budget as things are
FitsFreely ==
  /\ evaluations[best_index].desirability >= 0
  /\ evaluations[best_index].memory_cost + memory_consumption <= memory_budget

\* C32: when the selector considers a non-existing choice with saved work
\* >= 0 whose memory cost plus the tracked memory is within the budget, it
\* plans a create for it and no drop in that step
FreeInstall ==
  [][(ConsidersBestCandidate /\ FitsFreely) =>
       /\ Len(operations') = Len(operations) + 1
       /\ SubSeq(operations', 1, Len(operations)) = operations
       /\ operations'[Len(operations')].create
       /\ operations'[Len(operations')].choice = evaluations[best_index].id]_vars

\* a candidate with saved work 0 was created although an existing index
\* with less saved work is still in place
FreeInstallWitness ==
  /\ pc = "done"
  /\ \E i \in CreatedChoices : choices[i].desirability = 0
  /\ DroppedChoices = {}
  /\ \E k \in DOMAIN choices : choices[k].exists /\ choices[k].memory_cost > 0

(* ------------------------------ C33 ------------------------------------ *)

\* C33: whatever the budget and the other choices are, no create is planned
\* for a choice with negative saved work
NoCreateOfNegativeChoice ==
  \A i \in DOMAIN operations :
    operations[i].create => choices[operations[i].choice].desirability >= 0

\* a returned call whose input has a candidate with negative saved work that
\* would fit after the drop the call has planned, next to a created candidate
NoCreateOfNegativeChoiceWitness ==
  /\ pc = "done"
  /\ DroppedChoices # {}
  /\ CreatedChoices # {}
  /\ \E k \in DOMAIN choices :
       /\ ~choices[k].exists
       /\ choices[k].desirability < 0
       /\ choices[k].memory_cost + memory_consumption <= memory_budget

(* ------------------------------ C34 ------------------------------------ *)

\* the columns the catalog holds an index on
IndexedRefs == {existing[i].column_ref : i \in DOMAIN existing}

\* the columns the records of the pass access
AccessedRefs == {access_records[n].column_ref : n \in DOMAIN access_records}

\* the choices for new indexes on the column
CandidatesOn(ref) ==
  {j \in DOMAIN index_choices :
     ~index_choices[j].exists /\ index_choices[j].column_ref = ref}

\* C34: after evaluate() no column is both an existing choice and a new
\* candidate; a column with an index in the catalog is no candidate even
\* when the workload accesses it, and every other accessed column yields
\* exactly one choice with exists == false
CandidatesDisjointFromCatalog ==
  (pass_pc = "evaluated" /\ evaluator = "index") =>
    /\ \A j, k \in DOMAIN index_choices :
         (index_choices[j].exists /\ ~index_choices[k].exists)
           => index_choices[j].column_ref # index_choices[k].column_ref
    /\ \A ref \in IndexedRefs : CandidatesOn(ref) = {}
    /\ \A ref \in AccessedRefs \ IndexedRefs : Cardinality(CandidatesOn(ref)) = 1
    /\ \A j \in DOMAIN index_choices :
         ~index_choices[j].exists => index_choices[j].column_ref \in AccessedRefs

\* a pass whose workload accesses a column with an index twice and a column
\* without one
CandidatesDisjointFromCatalogWitness ==
  /\ pass_pc = "evaluated"
  /\ evaluator = "index"
  /\ AccessedRefs \cap IndexedRefs # {}
  /\ AccessedRefs \ IndexedRefs # {}

(* ------------------------------ C35 ------------------------------------ *)

\* the inputs of the plan node i, left before right
ChildrenOf(i) ==
  (IF plan[i].left # 0 THEN <<plan[i].left>> ELSE <<>>)
  \o (IF plan[i].right # 0 THEN <<plan[i].right>> ELSE <<>>)

\* the sequences made of some of the inputs of node i, in their order
SomeChildrenOf(i) ==
  {SelectSeq(ChildrenOf(i), LAMBDA c : c \in S) : S \in SUBSET {plan[i].left, plan[i].right}}

\* C35: every step of a plan walk takes the first node off the work list and
\* puts only inputs of that node at its end, so that the work list of a walk
\* of a finite acyclic plan empties and the walk ends (for the logical and
\* for the physical walkers)
WalkEnqueuesOwnChildren ==
  [][(walk_pc = "walking" /\ walk_pc' = "walking" /\ queue # <<>>) =>
       \E added \in SomeChildrenOf(Head(queue)) : queue' = Tail(queue) \o added]_vars

(* ------------------------------ C36 ------------------------------------ *)

\* the record of a predicate of the cached plan p, for a query of frequency f
RecordOfPredicate(p, node, f) ==
  [column_ref |-> [table_name |-> p[node.origin].table_name, column_id |-> node.column_id],
   query_frequency |-> f, condition |-> node.condition, compare_value |-> node.compare_value]

\* the records of the predicates of the cached plan p, from the root down
RECURSIVE RecordsOfPlan(_, _, _)
RecordsOfPlan(p, f, n) ==
  IF n = 0 THEN <<>>
  ELSE RecordsOfPlan(p, f, n - 1)
       \o (IF p[n].kind = "Predicate" THEN <<RecordOfPredicate(p, p[n], f)>> ELSE <<>>)

\* the records of the first k cache entries, entry by entry in cache order,
\* each with the frequency of its entry
RECURSIVE RecordsOfEntries(_)
RecordsOfEntries(k) ==
  IF k = 0 THEN <<>>
  ELSE RecordsOfEntries(k - 1)
       \o RecordsOfPlan(cache[k].plan, cache[k].frequency, Len(cache[k].plan))

\* C36: the inspection of the cache empties the record buffer and then walks
\* every cache entry exactly once in the order of the cache; the records of
\* an entry carry the frequency of that entry
EveryEntryWalkedOnce ==
  /\ (pass_pc = "inspect" /\ walk_pc = "returned")
       => access_records = RecordsOfEntries(entry_index)
  /\ pass_pc = "evaluated" => access_records = RecordsOfEntries(Len(cache))

\* a second pass over two entries with different frequencies that both
\* yield a record, after a first pass that left records in the buffer
EveryEntryWalkedOnceWitness ==
  /\ pass_pc = "evaluated"
  /\ pass > 1
  /\ Len(cache) = 2
  /\ Len(access_records) = 2
  /\ access_records[1].query_frequency # access_records[2].query_frequency
  /\ \E j \in DOMAIN previous_choices : previous_choices[j].saved_work > 0


(* --------------------------- SQL pipeline ------------------------------ *)

\* the largest number of statements of one SQL string
MaxStatements == 3

\* the statement types of the parser the pipeline tells apart
StatementTypes == {"Select", "Insert", "Import", "Create", "Drop", "Alter", "Rename"}

\* the statement types that alter the structure of the database
AlteringStatementTypes == {"Import", "Create", "Drop", "Alter", "Rename"}

SeenAlteringStatement(statements) ==
  \E i \in DOMAIN statements : statements[i] \in AlteringStatementTypes

RequiresExecutionOfAny(statements) ==
  SeenAlteringStatement(statements)

\* the constructor's last assignment
RequiresExecution(statements) ==
  SeenAlteringStatement(statements) /\ Len(statements) > 1

\* the statement after whose execution get_result_table() finds the
\* transaction context aborted (0: after none): without a context nothing is
\* looked at, an active context may be aborted by any statement, and an
\* aborted context is found aborted after the first statement
AbortingStatements(context, statement_count) ==
  CASE context = "none" -> {0}
    [] context = "active" -> 0 .. statement_count
    [] context = "aborted" -> {1}

StatementCallsOfAll(statement_count, failed) ==
  [i \in 1 .. statement_count |-> i] \o <<statement_count>>

\* the calls of pipeline_statement->get_result_table(), in order: the loop
\* runs up to the failed statement, or over all statements and then takes
\* the table of the last one
StatementCalls(statement_count, failed) ==
  IF failed = 0
  THEN [i \in 1 .. statement_count |-> i] \o <<statement_count>>
  ELSE [i \in 1 .. failed |-> i]

\* a pipeline has been constructed from a valid SQL string
PipelineInit ==
  /\ \E n \in 1 .. MaxStatements : sql_pipeline_statements \in [1 .. n -> StatementTypes]
  /\ transaction_context \in {"none", "active"}
  /\ requires_execution = RequiresExecution(sql_pipeline_statements)
  /\ pipeline_was_executed = FALSE
  /\ failed_pipeline_statement = 0
  /\ result_table = 0
  /\ plan_caches = {}
  /\ statement_calls = <<>>
  /\ sql_call = CallResult("none", 0, FALSE)
  /\ ApplyOff
  /\ SelectorOff
  /\ WalkerOff
  /\ evaluator = "none"
  /\ cache_kind = "gdfs"
  /\ cache = <<>>
  /\ entry_index = 0
  /\ existing = <<>>
  /\ chunk_count = 1
  /\ index_choices = <<>>
  /\ previous_choices = <<>>
  /\ doubled = {}
  /\ pass_pc = "off"

PipelineRest ==
  /\ UNCHANGED <<apply_pc, apply_index, attempted, failures, live>>
  /\ UNCHANGED <<evaluator, cache_kind, cache, entry_index, existing, chunk_count,
                 index_choices, previous_choices, doubled, pass_pc>>
  /\ UNCHANGED selectorVars
  /\ UNCHANGED walkerVars

GetUnoptimizedLogicalPlans ==
  /\ Len(sql_pipeline_statements) > 0
  /\ IF "unoptimized" \in plan_caches
     THEN /\ sql_call' = CallResult("get_unoptimized_logical_plans", Len(sql_pipeline_statements), FALSE)
          /\ UNCHANGED plan_caches
     ELSE IF requires_execution /\ ~pipeline_was_executed
     THEN /\ sql_call' = CallResult("get_unoptimized_logical_plans", 0, TRUE)
          /\ UNCHANGED plan_caches
     ELSE /\ sql_call' = CallResult("get_unoptimized_logical_plans", Len(sql_pipeline_statements), FALSE)
          /\ plan_caches' = plan_caches \cup {"unoptimized"}
  /\ UNCHANGED <<sql_pipeline_statements, transaction_context, requires_execution,
                 pipeline_was_executed, failed_pipeline_statement, result_table,
                 statement_calls>>
  /\ PipelineRest

\* filling the optimized plans empties the unoptimized ones
GetOptimizedLogicalPlans ==
  /\ Len(sql_pipeline_statements) > 0
  /\ IF "optimized" \in plan_caches
     THEN /\ sql_call' = CallResult("get_optimized_logical_plans", Len(sql_pipeline_statements), FALSE)
          /\ UNCHANGED plan_caches
     ELSE IF requires_execution /\ ~pipeline_was_executed
     THEN /\ sql_call' = CallResult("get_optimized_logical_plans", 0, TRUE)
          /\ UNCHANGED plan_caches
     ELSE /\ sql_call' = CallResult("get_optimized_logical_plans", Len(sql_pipeline_statements), FALSE)
          /\ plan_caches' = (plan_caches \cup {"optimized"}) \ {"unoptimized"}
  /\ UNCHANGED <<sql_pipeline_statements, transaction_context, requires_execution,
                 pipeline_was_executed, failed_pipeline_statement, result_table,
                 statement_calls>>
  /\ PipelineRest

GetQueryPlans ==
  /\ Len(sql_pipeline_statements) > 0
  /\ IF "query_plans" \in plan_caches
     THEN /\ sql_call' = CallResult("get_query_plans", Len(sql_pipeline_statements), FALSE)
          /\ UNCHANGED plan_caches
     ELSE IF requires_execution /\ ~pipeline_was_executed
     THEN /\ sql_call' = CallResult("get_query_plans", 0, TRUE)
          /\ UNCHANGED plan_caches
     ELSE /\ sql_call' = CallResult("get_query_plans", Len(sql_pipeline_statements), FALSE)
          /\ plan_caches' = plan_caches \cup {"query_plans"}
  /\ UNCHANGED <<sql_pipeline_statements, transaction_context, requires_execution,
                 pipeline_was_executed, failed_pipeline_statement, result_table,
                 statement_calls>>
  /\ PipelineRest

GetTasks ==
  /\ Len(sql_pipeline_statements) > 0
  /\ IF "tasks" \in plan_caches
     THEN /\ sql_call' = CallResult("get_tasks", Len(sql_pipeline_statements), FALSE)
          /\ UNCHANGED plan_caches
     ELSE IF requires_execution /\ ~pipeline_was_executed
     THEN /\ sql_call' = CallResult("get_tasks", 0, TRUE)
          /\ UNCHANGED plan_caches
     ELSE /\ sql_call' = CallResult("get_tasks", Len(sql_pipeline_statements), FALSE)
          /\ plan_caches' = plan_caches \cup {"tasks"}
  /\ UNCHANGED <<sql_pipeline_statements, transaction_context, requires_execution,
                 pipeline_was_executed, failed_pipeline_statement, result_table,
                 statement_calls>>
  /\ PipelineRest

\* an executed pipeline hands back its table; otherwise the statements run
\* one after the other until the transaction context is found aborted
GetResultTable ==
  /\ Len(sql_pipeline_statements) > 0
  /\ IF pipeline_was_executed
     THEN /\ sql_call' = CallResult("get_result_table", result_table, FALSE)
          /\ statement_calls' = <<>>
          /\ UNCHANGED <<transaction_context, pipeline_was_executed,
                         failed_pipeline_statement, result_table>>
     ELSE \E failed \in AbortingStatements(transaction_context, Len(sql_pipeline_statements)) :
            /\ statement_calls' = StatementCalls(Len(sql_pipeline_statements), failed)
            /\ transaction_context' = IF failed = 0 THEN transaction_context ELSE "aborted"
            /\ failed_pipeline_statement' = IF failed = 0 THEN failed_pipeline_statement ELSE failed
            /\ result_table' = IF failed = 0 THEN Len(sql_pipeline_statements) ELSE result_table
            /\ pipeline_was_executed' = IF failed = 0 THEN TRUE ELSE pipeline_was_executed
            /\ sql_call' = CallResult("get_result_table",
                                      IF failed = 0 THEN Len(sql_pipeline_statements) ELSE 0, FALSE)
  /\ UNCHANGED <<sql_pipeline_statements, requires_execution, plan_caches>>
  /\ PipelineRest

PipelineNext ==
  \/ GetUnoptimizedLogicalPlans
  \/ GetOptimizedLogicalPlans
  \/ GetQueryPlans
  \/ GetTasks
  \/ GetResultTable

PipelineSpec == PipelineInit /\ [][PipelineNext]_vars

(* ------------------------------ C37 ------------------------------------ *)

\* the step is a call of get_result_table() on a pipeline not yet executed
RunsTheStatements ==
  /\ ~pipeline_was_executed
  /\ sql_call'.method = "get_result_table"

\* the calls the step has made go through the statements in order
CallsInOrder ==
  \A i \in DOMAIN statement_calls' :
    i <= Len(sql_pipeline_statements) => statement_calls'[i] = i

\* C37: get_result_table() runs the statements in order; when the
\* transaction context is aborted after a statement it stops there: it
\* hands back null, failed_pipeline_statement is that statement, no later
\* statement has been run, and the pipeline is not marked as executed.
\* Without an abort every statement has been run.
StopsAtAbortedStatement ==
  [][RunsTheStatements =>
       /\ CallsInOrder
       /\ IF transaction_context' = "aborted"
          THEN /\ sql_call'.returned = 0
               /\ ~sql_call'.asserted
               /\ failed_pipeline_statement' \in DOMAIN sql_pipeline_statements
               /\ Len(statement_calls') = failed_pipeline_statement'
               /\ \A i \in DOMAIN statement_calls' :
                    statement_calls'[i] <= failed_pipeline_statement'
               /\ ~pipeline_was_executed'
          ELSE /\ Len(statement_calls') >= Len(sql_pipeline_statements)
               /\ pipeline_was_executed'
               /\ failed_pipeline_statement' = failed_pipeline_statement]_vars

\* the first of three statements has aborted the transaction: the call has
\* handed back null and the other two have not been run
StopsAtAbortedStatementWitness ==
  /\ Len(sql_pipeline_statements) = 3
  /\ sql_call = CallResult("get_result_table", 0, FALSE)
  /\ transaction_context = "aborted"
  /\ failed_pipeline_statement = 1
  /\ statement_calls = <<1>>
  /\ ~pipeline_was_executed

(* ------------------------------ C38 ------------------------------------ *)

PlanRequests ==
  {"get_unoptimized_logical_plans", "get_optimized_logical_plans", "get_query_plans",
   "get_tasks"}

\* the pipeline holds a statement that alters the structure of the database
HoldsStructureAltering ==
  \E i \in DOMAIN sql_pipeline_statements :
    \/ sql_pipeline_statements[i] = "Import"
    \/ sql_pipeline_statements[i] = "Create"
    \/ sql_pipeline_statements[i] = "Drop"
    \/ sql_pipeline_statements[i] = "Alter"
    \/ sql_pipeline_statements[i] = "Rename"

RequiresExecutionExactly ==
  Len(sql_pipeline_statements) > 0 =>
    /\ requires_execution = (Len(sql_pipeline_statements) > 1 /\ HoldsStructureAltering)
    /\ (requires_execution /\ ~pipeline_was_executed) => plan_caches = {}

RequestFailsBeforeExecution ==
  (requires_execution /\ ~pipeline_was_executed /\ sql_call'.method \in PlanRequests) =>
    /\ sql_call'.asserted
    /\ plan_caches' = plan_caches

\* C38: requires_execution is true exactly when the pipeline holds more
\* than one statement and one of them is an import, create, drop, alter or
\* rename; while it is true and get_result_table() has not completed, no
\* plan vector is filled and every request for the logical plans, the query
\* plans or the tasks of all statements fails its Assert and translates
\* nothing.
RequiresExecutionGuardsPlans ==
  []RequiresExecutionExactly /\ [][RequestFailsBeforeExecution]_vars

\* a request for plans has failed on a pipeline of two statements whose
\* execution has been aborted
RequiresExecutionGuardsPlansWitness ==
  /\ Len(sql_pipeline_statements) = 2
  /\ requires_execution
  /\ ~pipeline_was_executed
  /\ failed_pipeline_statement = 2
  /\ sql_call.method \in PlanRequests
  /\ sql_call.asserted
  /\ plan_caches = {}

====
